---- MODULE Spec2Model ----
(***************************************************************************)
(* Model of backstage-grpc-playground-backend.                             *)
(*                                                                         *)
(*   Spec      the dynamic invocation engine: one GRPCRequest handle       *)
(*             (src/src/api/sendRequest.ts) driven by its caller (the      *)
(*             send-request route of src/src/service/router.ts) and by     *)
(*             the transport's callbacks and stream events.                *)
(*   SpecLoad  one batch of the proto loader, loadProtosFromFile           *)
(*             (src/unnamed/part_005).                                     *)
(***************************************************************************)
EXTENDS Integers, Sequences, FiniteSets, TLC

VARIABLES
  \* ---- invocation engine ------------------------------------------------
  methodDef,      \* protoInfo.methodDef(): [requestStream, responseStream]
  inputs,         \* requestData.inputs: [isArray |-> BOOLEAN, n |-> Nat]
  _call,          \* GRPCRequest._call: "undefined" or "set"
  closeListeners, \* END listeners registered by send() that close the client
  emitted,        \* every event emitted by the handle, in order
  clientClosed,   \* number of client.close() invocations
  wire,           \* what the handle handed to the transport call, in order
  tCancelled,     \* the transport call's cancel() has been invoked
  tCallback,      \* the unary terminal callback has been delivered
  tError,         \* the stream's 'error' event has been delivered
  tEnd,           \* the stream's 'end' event has been delivered
  tData,          \* number of 'data' events delivered
  cancels,        \* number of cancel() invocations made on the handle
  writes,         \* number of write() invocations made on the handle
  reqClosed,      \* the HTTP request's 'close' event has fired
  last,           \* the handler that ran last, its input and its outcome
  callOptions,    \* the options send() passed to the method: [deadline]
  \* ---- proto loader -----------------------------------------------------
  protoFiles,     \* the batch handed to loadProtosFromFile
  idx,            \* position of the for-loop (1-based); Len+1 when returned
  outcomes,       \* the parser's outcome for each file processed so far
  attempts,       \* what each parse attempt made so far did (ParseOutcomes)
  protos,         \* the local list `protos`
  missingMap,     \* the local Map `missingMap`, kept in insertion order
  capturedFromWarning, \* the path captured by handleWarning (EmptyPath: falsy)
  loadPc,         \* "loop" inside the for-loop, "returned" after the return
  result,         \* the LoadProtoResult under construction
  \* ---- two-stage load (proto-info handler) ------------------------------
  fullSpec,       \* the entity spec of the request: [files, imports]
  toGet,          \* entitySpec.files: the files left to fetch in Stage 2
  stagePc,        \* "stage1", "stage2" or "sent"
  stage1,         \* what Stage 1 did: [batch, attempts, res]
  stage2,         \* what Stage 2 did: [ran, fetched, batch, attempts, res]
  final,          \* the handler's result: [protos, missingImports, status]
  \* ---- placeholder resolution and library cache -------------------------
  sandbox,        \* content of each sandbox file, "absent" when none exists
  remote,         \* the content the remote source serves now
  libCache,       \* the library cache: per directory, exists and its tree
  fetches,        \* number of remote reads made so far
  req,            \* per resolve request: position, placeholder, fetched file
  yields,         \* what the first resolution of each placeholder yielded
  lastLib,        \* the last readLibrary call: its inputs and its result
  \* ---- TLS material of a send-request (certificate files) ---------------
  tlsCertificate, \* the request's tlsCertificate (NoTls when absent)
  certStore,      \* a certificate store is configured
  disk,           \* per certificate file: it exists under CERT_PATH
  stored,         \* per certificate file: what certStore.getCertFile does
  ensured,        \* number of ensureCertFile calls completed
  missingCerts,   \* the handler's local list missingCerts
  tlsPc,          \* "ensure", "partial" (400 sent), "ready" or "called"
  client,         \* what getClient built: [creds, reads, override]
  \* ---- proxy workaround of send-request ----------------------------------
  env,            \* process.env: http_proxy, https_proxy, grpc_proxy
  envBefore,      \* process.env before the first invocation started
  noProxy,        \* process.env.no_grpc_playground_proxy is set
  inv,            \* per invocation: its position and the values it saved
  \* ---- certificate store -------------------------------------------------
  storeKind,      \* "memory" (MemoryCertStore) or "database"
  certificates,   \* the certificate rows, in insertion order: [id, entity]
  certFiles,      \* per (id, type): the certificate file row, or NoCertFile
  nextId,         \* the next uuid() to be issued
  given,          \* per (id, type): content given to the last insert/update
  storeOps,       \* number of store operations made so far
  lastStore,      \* the last insertCertificateIfNeeded: inputs and result
  \* ---- include directories (getAllPossibleSubPaths) ----------------------
  basePath,       \* the root
  paths,          \* the input paths
  pathIdx,        \* position of paths.forEach (1-based)
  extracted,      \* the local `extracted` of the while-loop
  allPaths,       \* the Set allPaths
  pathPc,         \* "next" between paths, "loop" in the loop, "returned"
  \* ---- the two certificate stores side by side ---------------------------
  mem,            \* MemoryCertStore: certificatesById, certificatesByEntity
  db,             \* DatabaseCertStore: the two tables
  issued,         \* per store: the id each insertCertificateIfNeeded returned
  deleted,        \* per store: the ids handed to deleteCertificate so far
  pairOps         \* number of operations made on the two stores

callVars == <<methodDef, inputs, _call, closeListeners, emitted, clientClosed,
              wire, tCancelled, tCallback, tError, tEnd, tData, cancels,
              writes, reqClosed, last, callOptions>>
loadVars == <<protoFiles, idx, outcomes, attempts, protos, missingMap,
              capturedFromWarning, loadPc, result>>
stageVars == <<fullSpec, toGet, stagePc, stage1, stage2, final>>
resolveVars == <<sandbox, remote, libCache, fetches, req, yields, lastLib>>
tlsVars == <<tlsCertificate, certStore, disk, stored, ensured, missingCerts,
             tlsPc, client>>
proxyVars == <<env, envBefore, noProxy, inv>>
storeVars == <<storeKind, certificates, certFiles, nextId, given, storeOps,
               lastStore>>
pathVars == <<basePath, paths, pathIdx, extracted, allPaths, pathPc>>
pairVars == <<mem, db, issued, deleted, pairOps>>
hostVars == <<tlsVars, proxyVars, storeVars, pathVars, pairVars>>
vars == <<callVars, loadVars, stageVars, resolveVars, hostVars>>

----------------------------------------------------------------------------
\* Bounds of the model.
MaxCancel == 2      \* cancel() invocations made directly by a caller
MaxWrite  == 1      \* write() invocations
MaxData   == 1      \* inbound stream messages
MaxStream == 2      \* length of inputs.stream
MaxFiles  == 2      \* files in one loader batch
MaxInvocations == 2 \* send-request invocations in flight together
MaxCerts  == 2      \* certificate ids issued by one store
MaxStoreOps == 3    \* operations made on one store
MaxPaths  == 2      \* input paths of one getAllPossibleSubPaths call

\* gRPC status codes the transport reports (0 = OK, i.e. no error).
\* 1 is the code handled as "request cancelled"; 2 and 14 are the codes
\* handled as "stream removed"; 4 (deadline exceeded) stands for the rest.
CANCELLED == 1
StreamRemoved == {2, 14}
Codes == {0, 4} \cup {CANCELLED} \cup StreamRemoved

\* GRPCEventType
DATA  == "DATA"
ERROR == "ERROR"
END   == "END"

\* An emitted event: its type and the metaInfo's `stream` flag
\* ("true", "undefined" when responseMetaInformation got no flag,
\*  "none" when there is no metaInfo or it is the empty object).
Ev(t, s) == [type |-> t, stream |-> s]

Count(seq, t) == Cardinality({i \in 1..Len(seq) : seq[i].type = t})

----------------------------------------------------------------------------
\* Pure parts of the handlers: the events each one emits.

\* cancel() without its guard on the call object.
CancelEventsUnguarded(call) == <<Ev(END, "none")>>

\* cancel(): emits END only when the transport call object exists.
CancelEvents(call) ==
  IF call = "set" THEN <<Ev(END, "none")>> ELSE <<>>

\* handleUnaryResponse without the early return of the cancelled case.
HandleUnaryResponseNoReturn(code) ==
  IF code # 0
    THEN IF code = CANCELLED
           THEN <<Ev(END, "none")>>
           ELSE <<Ev(ERROR, "undefined"), Ev(END, "none")>>
    ELSE <<Ev(DATA, "undefined"), Ev(END, "none")>>

\* handleUnaryResponse(err, response): code 0 stands for err = null.
HandleUnaryResponse(code) ==
  IF code # 0
    THEN IF code = CANCELLED
           THEN <<>>
           ELSE <<Ev(ERROR, "undefined"), Ev(END, "none")>>
    ELSE <<Ev(DATA, "undefined"), Ev(END, "none")>>

\* call.on('data')
OnStreamData == <<Ev(DATA, "true")>>

\* call.on('error') ending the call on every reported error.
OnStreamErrorAlwaysEnd(code) ==
  IF code # CANCELLED
    THEN <<Ev(ERROR, "true"), Ev(END, "none")>>
    ELSE <<>>

\* call.on('error'): code is err.code of a non-null err.
OnStreamError(code) ==
  IF code # CANCELLED
    THEN <<Ev(ERROR, "true")>> \o
         (IF code \in StreamRemoved
            THEN <<Ev(END, "none")>> ELSE <<>>)
    ELSE <<>>

\* call.on('end')
OnStreamEnd == <<Ev(END, "none")>>

\* parseRequestInfo throwing without emitting anything.
ParseRequestInfoSilent(validJson) == <<>>

\* parseRequestInfo(data): the events emitted before it throws.
ParseRequestInfoEvents(validJson) ==
  IF validJson THEN <<>> ELSE <<Ev(ERROR, "none"), Ev(END, "none")>>

\* What the handle hands to the transport call: a message, written by
\* send() or by write(), or the half-close made by send() or commitStream().
\* id is the position of the payload in inputs.stream, 0 for any other
\* payload.
Msg(by, id) == [kind |-> "msg", by |-> by, id |-> id]
HalfClose(by) == [kind |-> "end", by |-> by, id |-> 0]

\* clientSideStreaming half-closing the stream before it writes.
ClientSideStreamingWireEndFirst(in) ==
  <<HalfClose("send")>> \o
  (IF in.isArray THEN [i \in 1..in.n |-> Msg("send", i)]
   ELSE <<Msg("send", 0)>>)

\* clientSideStreaming: the writes made by send(), then the half-close.
ClientSideStreamingWire(in) ==
  (IF in.isArray THEN [i \in 1..in.n |-> Msg("send", i)]
   ELSE <<Msg("send", 0)>>) \o <<HalfClose("send")>>

\* EventEmitter.emit: appends the events; every END runs each close listener.
Emit(evs) ==
  /\ emitted' = emitted \o evs
  /\ clientClosed' = clientClosed + closeListeners * Count(evs, END)

----------------------------------------------------------------------------
\* No call has been issued: no options, hence no deadline.
NoDeadline == 0
NoOptions == [deadline |-> NoDeadline]

\* An empty LoadProtoResult, as both the loader and the handler create it.
EmptyResult == [protos |-> <<>>, missingImports |-> <<>>, status |-> "ok"]

\* A placeholder without url or imports, and the file it resolves to.
NoPlaceholder ==
  [filePath |-> [abs |-> FALSE, rel |-> ""], url |-> "", imports |-> <<>>]
NoFile ==
  [filePath |-> [abs |-> FALSE, rel |-> ""], url |-> "",
   content |-> "undefined", imports |-> <<>>]
IdleRequest ==
  [pc |-> "idle", ref |-> NoPlaceholder, file |-> NoFile, again |-> FALSE,
   existed |-> FALSE, fetched |-> 0]
NoLibraryCall ==
  [ran |-> FALSE, lib |-> [name |-> "", version |-> "", url |-> ""],
   again |-> FALSE, existed |-> FALSE, threw |-> FALSE, readTree |-> FALSE,
   res |-> [fetched |-> FALSE, error |-> FALSE, files |-> <<>>]]
Requests == {1, 2}
SandboxNames == {"a.proto", "b.proto"}
LibDirs == {<<"lib", "default">>, <<"lib", "v1">>}

\* The three certificate files a Certificate can name, in the order the
\* send-request handler ensures them.
CertTypes == <<"rootCert", "privateKey", "certChain">>
CertTypeSet == {"rootCert", "privateKey", "certChain"}

\* No tlsCertificate in the request, and no client built yet.
NoTls ==
  [present |-> FALSE, id |-> FALSE, useServerCertificate |-> "undefined",
   sslTargetHost |-> FALSE, privateKey |-> FALSE, certChain |-> FALSE]
NoClient ==
  [creds |-> "none", reads |-> <<>>, override |-> FALSE, threw |-> FALSE]

\* No send-request is handling TLS material.
TlsIdle ==
  /\ tlsCertificate = NoTls
  /\ certStore = FALSE
  /\ disk = [t \in CertTypeSet |-> "absent"]
  /\ stored = [t \in CertTypeSet |-> "none"]
  /\ ensured = 0
  /\ missingCerts = <<>>
  /\ tlsPc = "ensure"
  /\ client = NoClient

\* The proxy variables of process.env and the send-request invocations.
ProxyNames == {"http_proxy", "https_proxy", "grpc_proxy"}
Invocations == 1..MaxInvocations
IdleInvocation ==
  [pc |-> "idle", saved |-> [v \in ProxyNames |-> "unset"]]

\* No send-request touches the proxy variables.
ProxyIdle ==
  /\ env = [v \in ProxyNames |-> "unset"]
  /\ envBefore = env
  /\ noProxy = FALSE
  /\ inv = [i \in Invocations |-> IdleInvocation]

\* The ids uuid() issues, an absent certificate file row, and no call.
Ids == 1..MaxCerts
NoCertFile == [present |-> FALSE, filePath |-> "", content |-> <<>>]
NotGiven == [called |-> FALSE, content |-> <<>>]
NoStoreCall == [op |-> "none", entity |-> "", filePath |-> "", id |-> 0]

\* The certificate store is empty and unused.
StoreIdle ==
  /\ storeKind = "memory"
  /\ certificates = <<>>
  /\ certFiles = [k \in Ids \X CertTypeSet |-> NoCertFile]
  /\ nextId = 1
  /\ given = [k \in Ids \X CertTypeSet |-> NotGiven]
  /\ storeOps = 0
  /\ lastStore = NoStoreCall

\* A path string: absolute or not, its segments, and whether it ends with
\* a separator.  "/" has no segment, "" is the relative path without one.
Str(abs, segs, trail) == [abs |-> abs, segs |-> segs, trail |-> trail]
EmptyStr == Str(FALSE, <<>>, FALSE)

\* getAllPossibleSubPaths is not running.
PathIdle ==
  /\ basePath = Str(TRUE, <<>>, FALSE)
  /\ paths = <<>>
  /\ pathIdx = 1
  /\ extracted = EmptyStr
  /\ allPaths = {}
  /\ pathPc = "next"

\* The entities, the ids a caller can name (0 is an id no store issued),
\* and the two stores right after construction.
Entities == {"e1", "e2"}
AnyIds == 0..MaxCerts
NoFileRow ==
  [present |-> FALSE, fileName |-> "", filePath |-> "", type |-> "",
   content |-> <<>>]
NoCertificate ==
  [present |-> FALSE, entityName |-> "",
   files |-> [t \in CertTypeSet |-> NoFileRow]]
EmptyMemory ==
  [certificatesById |-> [id \in AnyIds |-> NoCertificate],
   certificatesByEntity |-> [e \in Entities |-> <<>>],
   uuid |-> 1]
EmptyDatabase ==
  [entity_certificates |-> <<>>,
   certificate_files |-> [k \in AnyIds \X CertTypeSet |-> NoFileRow],
   uuid |-> 1]

\* The two stores are empty and unused.
PairIdle ==
  /\ mem = EmptyMemory
  /\ db = EmptyDatabase
  /\ issued = [memory |-> <<>>, database |-> <<>>]
  /\ deleted = [memory |-> {}, database |-> {}]
  /\ pairOps = 0

\* Neither TLS material, proxy variables, stores nor paths are in use.
HostIdle == TlsIdle /\ ProxyIdle /\ StoreIdle /\ PathIdle /\ PairIdle

\* Nothing is being resolved.
ResolveIdle ==
  /\ sandbox = [n \in SandboxNames |-> "absent"]
  /\ remote = "v1"
  /\ libCache = [d \in LibDirs |-> [exists |-> FALSE, tree |-> <<>>]]
  /\ fetches = 0
  /\ req = [r \in Requests |-> IdleRequest]
  /\ yields = {}
  /\ lastLib = NoLibraryCall

\* No proto-info request is being served.
StageIdle ==
  /\ fullSpec = [files |-> <<>>, imports |-> <<>>]
  /\ toGet = <<>>
  /\ stagePc = "stage1"
  /\ stage1 = [batch |-> <<>>, attempts |-> <<>>, res |-> EmptyResult]
  /\ stage2 = [ran |-> FALSE, fetched |-> FALSE, batch |-> <<>>,
               attempts |-> <<>>, res |-> EmptyResult]
  /\ final = EmptyResult

\* The loader is idle while the invocation engine runs.
LoadIdle ==
  /\ protoFiles = <<>>
  /\ idx = 1
  /\ outcomes = <<>>
  /\ attempts = <<>>
  /\ protos = <<>>
  /\ missingMap = <<>>
  /\ capturedFromWarning = [abs |-> FALSE, rel |-> ""]
  /\ loadPc = "loop"
  /\ result = [status |-> "ok", missingImports |-> <<>>, protos |-> <<>>]

\* new GRPCRequest(...): the state after construction.
Init ==
  /\ methodDef \in [requestStream : BOOLEAN, responseStream : BOOLEAN]
  /\ inputs \in {[isArray |-> FALSE, n |-> 1]} \cup
                {[isArray |-> TRUE, n |-> k] : k \in 0..MaxStream}
  /\ _call = "undefined"
  /\ closeListeners = 0
  /\ emitted = <<>>
  /\ clientClosed = 0
  /\ wire = <<>>
  /\ tCancelled = FALSE
  /\ tCallback = FALSE
  /\ tError = FALSE
  /\ tEnd = FALSE
  /\ tData = 0
  /\ cancels = 0
  /\ writes = 0
  /\ reqClosed = FALSE
  /\ last = [op |-> "new", arg |-> 0, res |-> "ok"]
  /\ callOptions = NoOptions
  /\ LoadIdle
  /\ StageIdle
  /\ ResolveIdle
  /\ HostIdle

\* getRPCDeadline(rpcType): the milliseconds allowed from now on.
DefaultRpcType == 1
getRPCDeadline(rpcType) ==
  CASE rpcType = 1 -> 5000
    [] rpcType = 2 -> 7000
    [] OTHER -> 5000

\* The options unaryCall and clientSideStreaming pass to the method.
UnaryCallOptions == [deadline |-> getRPCDeadline(DefaultRpcType)]
ClientSideStreamingOptions == [deadline |-> getRPCDeadline(DefaultRpcType)]

\* send(): issues the call in the shape the method definition selects,
\* stores the call object and registers the listener closing the client.
Send ==
  /\ _call = "undefined"
  /\ wire' = IF methodDef.requestStream
               THEN ClientSideStreamingWire(inputs)
               ELSE <<Msg("send", 0)>>
  /\ _call' = "set"
  /\ closeListeners' = closeListeners + 1
  /\ callOptions' = IF methodDef.requestStream
                      THEN ClientSideStreamingOptions
                      ELSE UnaryCallOptions
  /\ last' = [op |-> "send", arg |-> 0, res |-> "ok"]
  /\ UNCHANGED <<methodDef, inputs, emitted, clientClosed, tCancelled,
                 tCallback, tError, tEnd, tData, cancels, writes, reqClosed>>
  /\ UNCHANGED <<loadVars, stageVars, resolveVars, hostVars>>

\* The body of cancel().
DoCancel ==
  /\ Emit(CancelEvents(_call))
  /\ tCancelled' = (tCancelled \/ _call = "set")
  /\ last' = [op |-> "cancel", arg |-> 0, res |-> "ok"]
  /\ UNCHANGED <<methodDef, inputs, callOptions, _call, closeListeners, wire, tCallback,
                 tError, tEnd, tData, writes>>
  /\ UNCHANGED <<loadVars, stageVars, resolveVars, hostVars>>

\* cancel() invoked by a holder of the handle.
Cancel ==
  /\ cancels < MaxCancel
  /\ cancels' = cancels + 1
  /\ UNCHANGED reqClosed
  /\ DoCancel

\* req.once('close'): the router cancels the call when the request closes.
RequestClose ==
  /\ _call = "set"
  /\ ~reqClosed
  /\ reqClosed' = TRUE
  /\ cancels' = cancels + 1
  /\ DoCancel

\* The transport call object has write()/end() only for a request-streaming
\* method; on the other call objects the property is not a function and the
\* invocation raises a TypeError.
CallIsWritable == methodDef.requestStream

\* write(data): parses the payload and hands it to the transport call;
\* last.arg records whether the payload was valid JSON (1) or not (0).
Write(validJson) ==
  /\ writes < MaxWrite
  /\ writes' = writes + 1
  /\ IF _call = "set"
       THEN /\ Emit(ParseRequestInfoEvents(validJson))
            /\ wire' = IF validJson /\ CallIsWritable
                         THEN Append(wire, Msg("write", 0)) ELSE wire
            /\ last' = [op |-> "write", arg |-> IF validJson THEN 1 ELSE 0,
                        res |-> IF ~validJson THEN "parse_error"
                                ELSE IF CallIsWritable THEN "written"
                                ELSE "threw"]
       ELSE /\ UNCHANGED <<emitted, clientClosed, wire>>
            /\ last' = [op |-> "write", arg |-> IF validJson THEN 1 ELSE 0,
                        res |-> "noop"]
  /\ UNCHANGED <<methodDef, inputs, callOptions, _call, closeListeners, tCancelled,
                 tCallback, tError, tEnd, tData, cancels, reqClosed>>
  /\ UNCHANGED <<loadVars, stageVars, resolveVars, hostVars>>

\* commitStream(): half-closes the request stream.
CommitStream ==
  /\ _call = "set"
  /\ last.op # "commitStream"
  /\ wire' = IF CallIsWritable THEN Append(wire, HalfClose("commitStream")) ELSE wire
  /\ last' = [op |-> "commitStream", arg |-> 0,
              res |-> IF CallIsWritable THEN "ended" ELSE "threw"]
  /\ UNCHANGED <<methodDef, inputs, callOptions, _call, closeListeners, emitted,
                 clientClosed, tCancelled, tCallback, tError, tEnd, tData,
                 cancels, writes, reqClosed>>
  /\ UNCHANGED <<loadVars, stageVars, resolveVars, hostVars>>

\* The status the transport reports once its call has been cancelled locally.
StatusAllowed(code) == tCancelled => code = CANCELLED

\* The terminal callback of a unary or client-streaming call
\* (the callback passed by unaryCall / clientSideStreaming).
UnaryCallback(code) ==
  /\ _call = "set"
  /\ ~methodDef.responseStream
  /\ ~tCallback
  /\ StatusAllowed(code)
  /\ tCallback' = TRUE
  /\ Emit(HandleUnaryResponse(code))
  /\ last' = [op |-> "callback", arg |-> code, res |-> "ok"]
  /\ UNCHANGED <<methodDef, inputs, callOptions, _call, closeListeners, wire, tCancelled,
                 tError, tEnd, tData, cancels, writes, reqClosed>>
  /\ UNCHANGED <<loadVars, stageVars, resolveVars, hostVars>>

\* call.on('data') of handleServerStreaming.
StreamData ==
  /\ _call = "set"
  /\ methodDef.responseStream
  /\ ~tCancelled /\ ~tError /\ ~tEnd
  /\ tData < MaxData
  /\ tData' = tData + 1
  /\ Emit(OnStreamData)
  /\ last' = [op |-> "data", arg |-> 0, res |-> "ok"]
  /\ UNCHANGED <<methodDef, inputs, callOptions, _call, closeListeners, wire, tCancelled,
                 tCallback, tError, tEnd, cancels, writes, reqClosed>>
  /\ UNCHANGED <<loadVars, stageVars, resolveVars, hostVars>>

\* call.on('error') of handleServerStreaming.
StreamError(code) ==
  /\ _call = "set"
  /\ methodDef.responseStream
  /\ ~tError /\ ~tEnd
  /\ code # 0
  /\ StatusAllowed(code)
  /\ tError' = TRUE
  /\ Emit(OnStreamError(code))
  /\ last' = [op |-> "error", arg |-> code, res |-> "ok"]
  /\ UNCHANGED <<methodDef, inputs, callOptions, _call, closeListeners, wire, tCancelled,
                 tCallback, tEnd, tData, cancels, writes, reqClosed>>
  /\ UNCHANGED <<loadVars, stageVars, resolveVars, hostVars>>

\* call.on('end') of handleServerStreaming.
StreamEnd ==
  /\ _call = "set"
  /\ methodDef.responseStream
  /\ ~tEnd
  /\ tEnd' = TRUE
  /\ Emit(OnStreamEnd)
  /\ last' = [op |-> "end", arg |-> 0, res |-> "ok"]
  /\ UNCHANGED <<methodDef, inputs, callOptions, _call, closeListeners, wire, tCancelled,
                 tCallback, tError, tData, cancels, writes, reqClosed>>
  /\ UNCHANGED <<loadVars, stageVars, resolveVars, hostVars>>

Next ==
  \/ Send
  \/ Cancel
  \/ RequestClose
  \/ \E v \in BOOLEAN : Write(v)
  \/ CommitStream
  \/ \E c \in Codes : UnaryCallback(c)
  \/ StreamData
  \/ \E c \in Codes : StreamError(c)
  \/ StreamEnd

Spec == Init /\ [][Next]_vars

----------------------------------------------------------------------------
\* The proto loader: loadProtosFromFile.

\* A path is its location relative to the sandbox root, given either in
\* absolute form (root/rel) or in relative form.
Path(a, r) == [abs |-> a, rel |-> r]
\* The empty string (and undefined): the falsy path.
EmptyPath == Path(FALSE, "")
FileNames   == {"a.proto", "b.proto"}
ImportNames == {"x.proto", "y.proto"}

\* getRelativePath(basePath, to)
getRelativePath(to) == IF to.abs THEN Path(FALSE, to.rel) ELSE to

\* getAbsolutePath(basePath, to)
getAbsolutePath(to) == IF to.abs THEN to ELSE Path(TRUE, to.rel)

\* getFileNameFromPath(p)
getFileNameFromPath(p) == p.rel

\* lodash uniqBy(list, 'filePath'): keeps the first entry of each filePath.
RECURSIVE uniqBy(_)
uniqBy(list) ==
  IF list = <<>> THEN <<>>
  ELSE LET init == uniqBy(SubSeq(list, 1, Len(list) - 1))
           x    == list[Len(list)]
       IN IF \E i \in 1..Len(init) : init[i].filePath = x.filePath
            THEN init ELSE Append(init, x)

\* The imports attached as they were given, without relativising them.
RelativeImportsAsGiven(imports) ==
  uniqBy([i \in 1..Len(imports) |-> [filePath |-> imports[i].filePath]])

\* The list relativeImports computed for one file.
RelativeImports(imports) ==
  uniqBy([i \in 1..Len(imports) |->
            [filePath |-> getRelativePath(imports[i].filePath)]])

\* The try/catch of the loop dropping what was parsed when a file fails.
PushProtoOrReset(list, file, kind) ==
  IF kind = "ok"
    THEN Append(list,
           [filePath |-> getRelativePath(getAbsolutePath(file.filePath)),
            imports |-> RelativeImports(file.imports)])
    ELSE <<>>

\* The try branch: the parsed proto, with its relative path and imports, is
\* pushed to protos; the catch branch leaves protos alone.
PushProto(list, file, kind) ==
  IF kind = "ok"
    THEN Append(list,
           [filePath |-> getRelativePath(getAbsolutePath(file.filePath)),
            imports |-> RelativeImports(file.imports)])
    ELSE list

\* The catch branch recording only the non-import failures.
CatchStatusFailOnly(status, kind) ==
  IF kind = "other" THEN "fail" ELSE status

\* The status assignment of the catch branch; kind "ok" is the try branch,
\* which leaves the status alone.
CatchStatus(status, kind) ==
  IF kind = "ok" THEN status
  ELSE IF kind = "enoent" THEN "part" ELSE "fail"

\* Index of the missingMap entry of a key, 0 when the key is absent.
MapIndex(map, key) ==
  IF \E i \in 1..Len(map) : map[i].filePath = key
    THEN CHOOSE i \in 1..Len(map) : map[i].filePath = key
    ELSE 0

\* The update of missingMap made by the errno === -2 branch.
RecordMissing(map, file, captured) ==
  LET missingImports ==
        IF captured # EmptyPath
          THEN <<[filePath |-> getRelativePath(captured),
                  fileName |-> getFileNameFromPath(captured)]>>
          ELSE <<>>
      relativeFilePath == getRelativePath(file.filePath)
      relativeImports == RelativeImports(file.imports)
      i == MapIndex(map, relativeFilePath)
  IN IF i = 0
       THEN Append(map, [filePath |-> relativeFilePath,
                         fileName |-> getFileNameFromPath(file.filePath),
                         missing  |-> missingImports,
                         imports  |-> relativeImports])
       ELSE [map EXCEPT ![i].imports =
               uniqBy(map[i].imports \o relativeImports)]

\* What one parse attempt (fromFileName) does: kind "ok" returns a proto,
\* "enoent" throws an error with errno -2 whose path errPath is the import
\* that could not be opened, "other" throws any other error; warned tells
\* whether the attempt raised a 'warning' event and warning is the path
\* handleWarning matched in it: the unresolved import, or EmptyPath when the
\* message does not match.  An import given by an absolute path fails
\* without a warning.
ParseOutcomes ==
  {[kind |-> "ok", warned |-> FALSE, warning |-> EmptyPath,
    errPath |-> EmptyPath],
   [kind |-> "other", warned |-> FALSE, warning |-> EmptyPath,
    errPath |-> EmptyPath]} \cup
  {[kind |-> "enoent", warned |-> FALSE, warning |-> EmptyPath,
    errPath |-> Path(TRUE, n)] : n \in ImportNames} \cup
  {[kind |-> "enoent", warned |-> TRUE,
    warning |-> IF m THEN Path(FALSE, n) ELSE EmptyPath,
    errPath |-> Path(TRUE, n)] : n \in ImportNames, m \in BOOLEAN}

InputFiles ==
  {[filePath |-> Path(a, n), imports |-> imps] :
     a \in BOOLEAN, n \in FileNames,
     imps \in {<<>>,
               <<[filePath |-> Path(FALSE, "x.proto")]>>,
               <<[filePath |-> Path(TRUE, "y.proto")]>>,
               <<[filePath |-> Path(FALSE, "x.proto")],
                 [filePath |-> Path(TRUE, "x.proto")]>>}}

Batches == UNION {[1..n -> InputFiles] : n \in 1..MaxFiles}

\* The invocation engine is idle while the loader runs.
CallIdle ==
  /\ methodDef = [requestStream |-> FALSE, responseStream |-> FALSE]
  /\ inputs = [isArray |-> FALSE, n |-> 1]
  /\ _call = "undefined"
  /\ closeListeners = 0
  /\ emitted = <<>>
  /\ clientClosed = 0
  /\ wire = <<>>
  /\ tCancelled = FALSE
  /\ tCallback = FALSE
  /\ tError = FALSE
  /\ tEnd = FALSE
  /\ tData = 0
  /\ cancels = 0
  /\ writes = 0
  /\ reqClosed = FALSE
  /\ last = [op |-> "new", arg |-> 0, res |-> "ok"]
  /\ callOptions = NoOptions

\* The state on entry of loadProtosFromFile(basePath, protoFiles).
InitLoad ==
  /\ CallIdle
  /\ StageIdle
  /\ ResolveIdle
  /\ HostIdle
  /\ protoFiles \in Batches
  /\ idx = 1
  /\ outcomes = <<>>
  /\ attempts = <<>>
  /\ protos = <<>>
  /\ missingMap = <<>>
  /\ capturedFromWarning = [abs |-> FALSE, rel |-> ""]
  /\ loadPc = "loop"
  /\ result = [status |-> "ok", missingImports |-> <<>>, protos |-> <<>>]

\* One iteration of the for-loop over protoFiles.
LoadFile(o) ==
  /\ loadPc = "loop"
  /\ idx <= Len(protoFiles)
  /\ LET file == protoFiles[idx]
         captured == IF o.warned THEN o.warning ELSE capturedFromWarning
         capturedMissing == IF captured # EmptyPath THEN captured
                            ELSE o.errPath
         map == IF o.kind = "enoent"
                  THEN RecordMissing(missingMap, file, capturedMissing)
                  ELSE missingMap
     IN /\ capturedFromWarning' = captured
        /\ protos' = PushProto(protos, file, o.kind)
        /\ missingMap' = map
        /\ result' = [result EXCEPT
                        !.status = CatchStatus(result.status, o.kind),
                        !.missingImports = map]
  /\ outcomes' = Append(outcomes, o.kind)
  /\ attempts' = Append(attempts, o)
  /\ idx' = idx + 1
  /\ UNCHANGED <<protoFiles, loadPc>>
  /\ UNCHANGED <<callVars, stageVars, resolveVars, hostVars>>

\* After the loop: the proto list is attached and the result returned.
LoadReturn ==
  /\ loadPc = "loop"
  /\ idx = Len(protoFiles) + 1
  /\ result' = [result EXCEPT !.protos = protos]
  /\ loadPc' = "returned"
  /\ UNCHANGED <<protoFiles, idx, outcomes, attempts, protos, missingMap,
                 capturedFromWarning>>
  /\ UNCHANGED <<callVars, stageVars, resolveVars, hostVars>>

NextLoad ==
  \/ \E o \in ParseOutcomes : LoadFile(o)
  \/ LoadReturn

SpecLoad == InitLoad /\ [][NextLoad]_vars

----------------------------------------------------------------------------
\* The two-stage load of the proto-info handler.

\* The state of loadProtosFromFile after n iterations of its loop over
\* batch, attempts[i] being what the parse of batch[i] did.
RECURSIVE LoadLoop(_, _, _)
LoadLoop(batch, atts, n) ==
  IF n = 0
    THEN [protos |-> <<>>, map |-> <<>>, captured |-> EmptyPath,
          status |-> "ok"]
    ELSE LET prev == LoadLoop(batch, atts, n - 1)
             file == batch[n]
             o == atts[n]
             captured == IF o.warned THEN o.warning ELSE prev.captured
             capturedMissing == IF captured # EmptyPath THEN captured
                                ELSE o.errPath
         IN [protos |-> PushProto(prev.protos, file, o.kind),
             map |-> IF o.kind = "enoent"
                       THEN RecordMissing(prev.map, file, capturedMissing)
                       ELSE prev.map,
             captured |-> captured,
             status |-> CatchStatus(prev.status, o.kind)]

\* loadProtos(basePath, protoFiles): the LoadProtoResult of a whole batch.
loadProtos(batch, atts) ==
  LET end == LoadLoop(batch, atts, Len(batch))
  IN [protos |-> end.protos, missingImports |-> end.map,
      status |-> end.status]

\* parseEntitySpec(spec): the files to fetch and the preloaded files.
parseEntitySpec(spec) ==
  [entitySpec |->
     [files |-> uniqBy(SelectSeq(spec.files, LAMBDA d : d.url)),
      imports |-> spec.imports],
   preloadedProtos |-> uniqBy(SelectSeq(spec.files, LAMBDA d : d.isPreloaded))]

\* files.findIndex(p => p.filePath === path), 0 for -1.
FindIndex(files, path) ==
  IF \E i \in 1..Len(files) : files[i].filePath = path
    THEN CHOOSE i \in 1..Len(files) :
           /\ files[i].filePath = path
           /\ \A j \in 1..(i - 1) : files[j].filePath # path
    ELSE 0

\* The forEach over result.protos that splices the loaded files out of
\* entitySpec.files.
RECURSIVE SpliceLoaded(_, _)
SpliceLoaded(files, loaded) ==
  IF loaded = <<>> THEN files
  ELSE LET index == FindIndex(files, Head(loaded).filePath)
           rest == IF index > 0
                     THEN SubSeq(files, 1, index - 1) \o
                          SubSeq(files, index + 1, Len(files))
                     ELSE files
       IN SpliceLoaded(rest, Tail(loaded))

\* The files handed to a loadProtos call: path and known imports.
AsBatch(files, common) ==
  [i \in 1..Len(files) |->
     [filePath |-> files[i].filePath,
      imports |-> common \o files[i].imports]]

\* The filter on resolvedFiles made before the Stage 2 load: entries whose
\* path is that of a fetched file, of a common import or of a file's import
\* are dropped.
FilterFetched(missing, fetched, commonImports) ==
  LET resolvedFiles ==
        {fetched[i].filePath : i \in 1..Len(fetched)} \cup
        {commonImports[i].filePath : i \in 1..Len(commonImports)} \cup
        UNION {{fetched[i].imports[j].filePath :
                  j \in 1..Len(fetched[i].imports)} :
               i \in 1..Len(fetched)}
  IN SelectSeq(missing, LAMBDA m : m.filePath \notin resolvedFiles)

\* The part branch of the switch: the Stage 2 entries are merged by
\* filePath into the entries kept so far, an import being pushed only when
\* its path is not among the current imports.
RECURSIVE MergeMissing(_, _)
MergeMissing(cur, new) ==
  IF new = <<>> THEN cur
  ELSE LET missing == Head(new)
           i == MapIndex(cur, missing.filePath)
           merged ==
             IF i = 0 THEN Append(cur, missing)
             ELSE [cur EXCEPT ![i].imports =
                     @ \o SelectSeq(missing.imports, LAMBDA imp :
                            \A j \in 1..Len(cur[i].imports) :
                              cur[i].imports[j].filePath # imp.filePath)]
       IN MergeMissing(merged, Tail(new))

\* The switch setting OK after a clean Stage 2 without looking at what is
\* left in missingImports.
UnifyOkBlindly(res, loaded) ==
  LET resolvedFiles == {loaded.protos[i].filePath : i \in 1..Len(loaded.protos)}
      kept == SelectSeq(res.missingImports,
                        LAMBDA m : m.filePath \notin resolvedFiles)
  IN [protos |-> res.protos \o loaded.protos,
      missingImports |->
        IF loaded.status = "ok" /\ res.status = "part" THEN kept
        ELSE IF loaded.status = "part"
          THEN MergeMissing(res.missingImports, loaded.missingImports)
        ELSE res.missingImports,
      status |->
        IF loaded.status = "ok"
          THEN (IF res.status = "part" THEN "ok" ELSE res.status)
          ELSE loaded.status]

\* "Unify result from two stages": the switch on the Stage 2 status and the
\* push of the Stage 2 protos.
Unify(res, loaded) ==
  LET resolvedFiles == {loaded.protos[i].filePath : i \in 1..Len(loaded.protos)}
      kept == SelectSeq(res.missingImports,
                        LAMBDA m : m.filePath \notin resolvedFiles)
  IN [protos |-> res.protos \o loaded.protos,
      missingImports |->
        IF loaded.status = "ok" /\ res.status = "part" THEN kept
        ELSE IF loaded.status = "part"
          THEN MergeMissing(res.missingImports, loaded.missingImports)
        ELSE res.missingImports,
      status |->
        IF loaded.status = "ok"
          THEN (IF res.status = "part" /\ kept = <<>> THEN "ok"
                ELSE res.status)
          ELSE loaded.status]

\* The files of an entity spec.  A file carries a url, the isPreloaded
\* flag or both; a.proto is given by its relative path and declares one
\* import, b.proto is given by its relative or by its absolute path.
SpecFiles ==
  {f \in {[filePath |-> pth, url |-> u, isPreloaded |-> p,
           imports |-> IF pth.rel = "a.proto"
                         THEN <<[filePath |-> Path(FALSE, "x.proto")]>>
                         ELSE <<>>] :
            pth \in {Path(FALSE, "a.proto"), Path(FALSE, "b.proto"),
                     Path(TRUE, "b.proto")},
            u \in BOOLEAN, p \in BOOLEAN} :
     f.url \/ f.isPreloaded}

MaxSpecFiles == 2

EntitySpecs ==
  {[files |-> f, imports |-> c] :
     f \in UNION {[1..n -> SpecFiles] : n \in 1..MaxSpecFiles},
     c \in {<<>>, <<[filePath |-> Path(FALSE, "y.proto")]>>}}

\* What the parse of one file of a stage can do: succeed, fail for another
\* reason, fail because the file itself is not in the sandbox, or fail on
\* the import x.proto with the warning captured.
StageOutcomes(file) ==
  {[kind |-> "ok", warned |-> FALSE, warning |-> EmptyPath,
    errPath |-> EmptyPath],
   [kind |-> "other", warned |-> FALSE, warning |-> EmptyPath,
    errPath |-> EmptyPath],
   [kind |-> "enoent", warned |-> FALSE, warning |-> EmptyPath,
    errPath |-> getAbsolutePath(file.filePath)],
   [kind |-> "enoent", warned |-> TRUE, warning |-> Path(FALSE, "x.proto"),
    errPath |-> Path(TRUE, "x.proto")]}

StageAttempts(batch) ==
  {atts \in [1..Len(batch) -> UNION {StageOutcomes(f) : f \in SpecFiles}] :
     \A i \in 1..Len(batch) :
       atts[i] \in StageOutcomes([filePath |-> batch[i].filePath])}

\* The request arrives: validateRequestBody has returned fullSpec.
InitStages ==
  /\ CallIdle
  /\ LoadIdle
  /\ ResolveIdle
  /\ HostIdle
  /\ fullSpec \in EntitySpecs
  /\ toGet = <<>>
  /\ stagePc = "stage1"
  /\ stage1 = [batch |-> <<>>, attempts |-> <<>>, res |-> EmptyResult]
  /\ stage2 = [ran |-> FALSE, fetched |-> FALSE, batch |-> <<>>,
               attempts |-> <<>>, res |-> EmptyResult]
  /\ final = EmptyResult

\* The batch of Stage 1.
PreloadedBatch == AsBatch(parseEntitySpec(fullSpec).preloadedProtos, <<>>)

\* parseEntitySpec and Stage 1: load from local storage.
Stage1(atts) ==
  /\ stagePc = "stage1"
  /\ LET parsed == parseEntitySpec(fullSpec)
         batch == PreloadedBatch
         res == loadProtos(batch, atts)
     IN /\ stage1' = [batch |-> batch, attempts |-> atts, res |-> res]
        /\ IF batch # <<>>
             THEN /\ final' = res
                  /\ toGet' = SpliceLoaded(parsed.entitySpec.files, res.protos)
             ELSE /\ final' = final
                  /\ toGet' = parsed.entitySpec.files
  /\ stagePc' = "stage2"
  /\ UNCHANGED <<fullSpec, stage2>>
  /\ UNCHANGED <<callVars, loadVars, resolveVars, hostVars>>

\* Stage 2 has nothing to fetch.
Stage2Skipped ==
  /\ stagePc = "stage2"
  /\ toGet = <<>>
  /\ stagePc' = "sent"
  /\ UNCHANGED <<fullSpec, toGet, stage1, stage2, final>>
  /\ UNCHANGED <<callVars, loadVars, resolveVars, hostVars>>

\* getProtosFromEntitySpec catches an error of the resolver and returns
\* null.
Stage2FetchFailed ==
  /\ stagePc = "stage2"
  /\ toGet # <<>>
  /\ stage2' = [stage2 EXCEPT !.ran = TRUE]
  /\ stagePc' = "sent"
  /\ UNCHANGED <<fullSpec, toGet, stage1, final>>
  /\ UNCHANGED <<callVars, loadVars, resolveVars, hostVars>>

\* The batch of Stage 2: the fetched files, each with the common imports
\* and its own.
FetchedBatch == AsBatch(toGet, fullSpec.imports)

\* Stage 2: the files are fetched, loaded, and the results unified.
Stage2Load(atts) ==
  /\ stagePc = "stage2"
  /\ toGet # <<>>
  /\ LET batch == FetchedBatch
         kept == FilterFetched(final.missingImports, toGet, fullSpec.imports)
         res == loadProtos(batch, atts)
     IN /\ stage2' = [ran |-> TRUE, fetched |-> TRUE, batch |-> batch,
                      attempts |-> atts, res |-> res]
        /\ final' = Unify([final EXCEPT !.missingImports = kept], res)
  /\ stagePc' = "sent"
  /\ UNCHANGED <<fullSpec, toGet, stage1>>
  /\ UNCHANGED <<callVars, loadVars, resolveVars, hostVars>>

NextStages ==
  \/ \E atts \in StageAttempts(PreloadedBatch) : Stage1(atts)
  \/ Stage2Skipped
  \/ Stage2FetchFailed
  \/ \E atts \in StageAttempts(FetchedBatch) : Stage2Load(atts)

SpecStages == InitStages /\ [][NextStages]_vars

----------------------------------------------------------------------------
\* Placeholder resolution (processEntitySpec, saveProtoTextAsFile) and the
\* library cache (readLibrary).

MaxFetch == 3       \* remote reads in one behaviour

Contents == {"v1", "v2"}

\* The placeholders of a resolve request: a.proto with a url, by relative
\* or absolute path, a.proto without url, and b.proto importing a.proto.
Placeholders ==
  {[filePath |-> Path(FALSE, "a.proto"), url |-> "u1", imports |-> <<>>],
   [filePath |-> Path(TRUE, "a.proto"), url |-> "u1", imports |-> <<>>],
   [filePath |-> Path(FALSE, "a.proto"), url |-> "", imports |-> <<>>],
   [filePath |-> Path(FALSE, "b.proto"), url |-> "u2",
    imports |-> <<[filePath |-> Path(FALSE, "a.proto"), url |-> "u1",
                   imports |-> <<>>]>>]}

\* Number of urls read by placeholderToFile for a placeholder.
RECURSIVE NumUrls(_)
NumUrls(placeholder) ==
  LET RECURSIVE Sum(_)
      Sum(list) == IF list = <<>> THEN 0
                   ELSE NumUrls(Head(list)) + Sum(Tail(list))
  IN (IF placeholder.url # "" THEN 1 ELSE 0) + Sum(placeholder.imports)

\* placeholderToFile(placeholder): the content is read from the url when
\* there is one, and the imports are resolved the same way.
RECURSIVE placeholderToFile(_, _)
placeholderToFile(placeholder, served) ==
  [filePath |-> placeholder.filePath,
   url |-> placeholder.url,
   content |-> IF placeholder.url # "" THEN served ELSE "undefined",
   imports |-> [i \in 1..Len(placeholder.imports) |->
                  placeholderToFile(placeholder.imports[i], served)]]

\* The location path.resolve(basePath, filePath) of a file in the sandbox.
Location(filePath) == filePath.rel

\* The write made whether or not a file exists at the path.
WriteAlways(sb, file) ==
  IF file.content \notin {"undefined", ""}
    THEN [sb EXCEPT ![Location(file.filePath)] = file.content]
    ELSE sb

\* The write of saveProtoTextAsFile: only when no file exists at the path
\* and the content is truthy.
WriteIfAbsent(sb, file) ==
  IF sb[Location(file.filePath)] = "absent"
       /\ file.content \notin {"undefined", ""}
    THEN [sb EXCEPT ![Location(file.filePath)] = file.content]
    ELSE sb

\* saveProtoTextAsFile(basePath, file): the file, then its imports.
RECURSIVE saveProtoTextAsFile(_, _)
saveProtoTextAsFile(sb, file) ==
  LET RECURSIVE SaveAll(_, _)
      SaveAll(cur, list) ==
        IF list = <<>> THEN cur
        ELSE SaveAll(saveProtoTextAsFile(cur, Head(list)), Tail(list))
  IN SaveAll(WriteIfAbsent(sb, file), file.imports)

\* The directory trees the cache can hold.
DirTrees ==
  {<<>>,
   <<[name |-> "l1.proto", isDir |-> FALSE, children |-> <<>>]>>,
   <<[name |-> "l1.proto", isDir |-> FALSE, children |-> <<>>],
     [name |-> "sub", isDir |-> TRUE,
      children |-> <<[name |-> "l2.proto", isDir |-> FALSE,
                      children |-> <<>>]>>]>>}

\* The files of the tree the remote source serves for a library.
TreeFiles(served) ==
  <<[path |-> <<"l1.proto">>, content |-> served],
    [path |-> <<"sub", "l2.proto">>, content |-> served]>>

Libraries ==
  [name : {"lib"}, version : {"undefined", "v1"}, url : {"", "u"}]

\* getAllFiles(dir, parent): the paths of the files below dir.
RECURSIVE getAllFiles(_, _)
getAllFiles(entries, parent) ==
  IF entries = <<>> THEN <<>>
  ELSE LET e == Head(entries)
           currentPath == parent \o <<e.name>>
       IN (IF e.isDir THEN getAllFiles(e.children, currentPath)
           ELSE <<currentPath>>) \o getAllFiles(Tail(entries), parent)

\* libDir: the cache directory of a library, version defaulting to
\* 'default'.
LibDir(lib) ==
  <<lib.name, IF lib.version = "undefined" THEN "default" ELSE lib.version>>

\* readLibrary fetching the tree whenever a url is given.
readLibraryNoCache(lib, cache, threw, readTree, fetchOk, served) ==
  IF lib.url # "" /\ readTree
    THEN IF fetchOk
      THEN [fetched |-> TRUE, error |-> FALSE,
            files |-> [i \in 1..Len(TreeFiles(served)) |->
                         [fileName |-> <<TreeFiles(served)[i].path[
                                           Len(TreeFiles(served)[i].path)]>>,
                          filePath |-> LibDir(lib) \o TreeFiles(served)[i].path,
                          content |-> TreeFiles(served)[i].content]]]
      ELSE [fetched |-> TRUE, error |-> TRUE, files |-> <<>>]
  ELSE [fetched |-> FALSE, error |-> FALSE, files |-> <<>>]

\* readLibrary(lib): the files of the cache directory when it exists and
\* can be listed; else the fetched tree when a url is given and the reader
\* has readTree; else nothing.
readLibrary(lib, cache, threw, readTree, fetchOk, served) ==
  LET libDir == LibDir(lib)
      libLocalFileNames == getAllFiles(cache[libDir].tree, <<>>)
  IN IF cache[libDir].exists /\ ~threw
       THEN [fetched |-> FALSE, error |-> FALSE,
             files |-> [i \in 1..Len(libLocalFileNames) |->
                          [fileName |-> libLocalFileNames[i],
                           filePath |-> libDir \o libLocalFileNames[i],
                           content |-> "undefined"]]]
     ELSE IF lib.url # "" /\ readTree
       THEN IF fetchOk
         THEN [fetched |-> TRUE, error |-> FALSE,
               files |-> [i \in 1..Len(TreeFiles(served)) |->
                            [fileName |-> <<TreeFiles(served)[i].path[
                                              Len(TreeFiles(served)[i].path)]>>,
                             filePath |-> libDir \o TreeFiles(served)[i].path,
                             content |-> TreeFiles(served)[i].content]]]
         ELSE [fetched |-> TRUE, error |-> TRUE, files |-> <<>>]
     ELSE [fetched |-> FALSE, error |-> FALSE, files |-> <<>>]

\* Placeholders are resolved: the sandbox holds whatever earlier requests
\* and uploads left there.
InitResolve ==
  /\ CallIdle
  /\ LoadIdle
  /\ StageIdle
  /\ HostIdle
  /\ sandbox \in [SandboxNames -> {"absent", "v1"}]
  /\ remote \in Contents
  /\ libCache = [d \in LibDirs |-> [exists |-> FALSE, tree |-> <<>>]]
  /\ fetches = 0
  /\ req = [r \in Requests |-> IdleRequest]
  /\ yields = {}
  /\ lastLib = NoLibraryCall

\* Libraries are read: the cache holds whatever was put there.
InitLibrary ==
  /\ CallIdle
  /\ LoadIdle
  /\ StageIdle
  /\ HostIdle
  /\ sandbox = [n \in SandboxNames |-> "absent"]
  /\ remote \in Contents
  /\ libCache \in [LibDirs -> {[exists |-> FALSE, tree |-> <<>>]} \cup
                              {[exists |-> TRUE, tree |-> t] : t \in DirTrees}]
  /\ fetches = 0
  /\ req = [r \in Requests |-> IdleRequest]
  /\ yields = {}
  /\ lastLib = NoLibraryCall

\* A resolve request starts: processEntitySpec reads the urls of the
\* placeholder and of its imports.  When a read fails the error is caught
\* by getProtosFromEntitySpec and nothing is saved.
Fetch(r, placeholder, fetchOk) ==
  /\ req[r].pc # "fetched"
  /\ fetches + NumUrls(placeholder) <= MaxFetch
  /\ fetchOk \/ NumUrls(placeholder) > 0
  /\ fetches' = fetches + NumUrls(placeholder)
  /\ req' = [req EXCEPT ![r] =
       [pc |-> IF fetchOk THEN "fetched" ELSE "failed",
        ref |-> placeholder,
        file |-> IF fetchOk THEN placeholderToFile(placeholder, remote)
                 ELSE NoFile,
        again |-> \E y \in yields : y.ref = placeholder,
        existed |-> sandbox[Location(placeholder.filePath)] # "absent",
        fetched |-> NumUrls(placeholder)]]
  /\ UNCHANGED <<sandbox, remote, libCache, yields, lastLib>>
  /\ UNCHANGED <<callVars, loadVars, stageVars, hostVars>>

\* The fetched files of the request are saved in the sandbox.
Save(r) ==
  /\ req[r].pc = "fetched"
  /\ sandbox' = saveProtoTextAsFile(sandbox, req[r].file)
  /\ req' = [req EXCEPT ![r].pc = "done"]
  /\ yields' =
       IF \E y \in yields : y.ref = req[r].ref THEN yields
       ELSE yields \cup
              {[ref |-> req[r].ref,
                content |-> sandbox'[Location(req[r].ref.filePath)]]}
  /\ UNCHANGED <<remote, libCache, fetches, lastLib>>
  /\ UNCHANGED <<callVars, loadVars, stageVars, hostVars>>

\* The remote source publishes another content.
RemoteChange(c) ==
  /\ c # remote
  /\ remote' = c
  /\ UNCHANGED <<sandbox, libCache, fetches, req, yields, lastLib>>
  /\ UNCHANGED <<callVars, loadVars, stageVars, hostVars>>

\* One call of readLibrary.
ReadLibrary(lib, threw, readTree, fetchOk) ==
  /\ fetches < MaxFetch
  /\ threw => libCache[LibDir(lib)].exists
  /\ LET res == readLibrary(lib, libCache, threw, readTree, fetchOk, remote)
     IN /\ lastLib' = [ran |-> TRUE, lib |-> lib,
                       again |-> lastLib.ran /\ lastLib.lib = lib,
                       existed |-> libCache[LibDir(lib)].exists,
                       threw |-> threw, readTree |-> readTree, res |-> res]
        /\ fetches' = IF res.fetched THEN fetches + 1 ELSE fetches
  /\ UNCHANGED <<sandbox, remote, libCache, req, yields>>
  /\ UNCHANGED <<callVars, loadVars, stageVars, hostVars>>

NextResolve ==
  \/ \E r \in Requests, ph \in Placeholders, ok \in BOOLEAN : Fetch(r, ph, ok)
  \/ \E r \in Requests : Save(r)
  \/ \E c \in Contents \cup {""} : RemoteChange(c)

SpecResolve == InitResolve /\ [][NextResolve]_vars

NextLibrary ==
  \/ \E lib \in Libraries, threw, readTree, ok \in BOOLEAN :
       ReadLibrary(lib, threw, readTree, ok)
  \/ \E c \in Contents \cup {""} : RemoteChange(c)

SpecLibrary == InitLibrary /\ [][NextLibrary]_vars

----------------------------------------------------------------------------
\* Properties of the invocation engine (checked under Spec).

\* The events emitted by the step.
NewEvents == SubSeq(emitted', Len(emitted) + 1, Len(emitted'))
EventsKept == SubSeq(emitted', 1, Len(emitted)) = emitted
Types(seq) == [i \in 1..Len(seq) |-> seq[i].type]
CancelStep == cancels' = cancels + 1

\* C1: once a cancel() has acted on the call after send(), a further
\* cancel() on the same handle emits nothing (one END in total).
C1_SecondCancelIsNoOp ==
  [][(CancelStep /\ tCancelled) => emitted' = emitted]_vars

\* C2: in every execution of one call the END event is emitted at most once.
C2_EndAtMostOnce == Count(emitted, END) <= 1

\* C3: once END has been emitted, no DATA or ERROR event is emitted.
C3_EndIsTerminal ==
  [][Count(emitted, END) >= 1 =>
       /\ Count(emitted', DATA) = Count(emitted, DATA)
       /\ Count(emitted', ERROR) = Count(emitted, ERROR)]_vars

\* C4: a sent call whose transport has delivered its terminal callback, or
\* its stream's end event, has emitted END.
C4_TerminatedCallHasEnded ==
  (tCallback \/ tEnd) => Count(emitted, END) >= 1

\* C5: a sent call that has ended has had its client connection closed
\* exactly once, and no call has it closed more than once.
C5_ClientClosedOnce ==
  /\ clientClosed <= 1
  /\ (_call = "set" /\ Count(emitted, END) >= 1) => clientClosed = 1

\* C6: the terminal callback of a unary or client-streaming call emits DATA
\* then END when there is no error, ERROR then END when the error code is
\* not 1, and nothing when the error code is 1.
C6_UnaryCallbackEvents ==
  [][(tCallback' /\ ~tCallback) =>
       /\ EventsKept
       /\ Types(NewEvents) =
            IF last'.arg = 0 THEN <<DATA, END>>
            ELSE IF last'.arg = 1 THEN <<>>
            ELSE <<ERROR, END>>]_vars

C6_Witness ==
  /\ last.op = "callback"
  /\ last.arg = 4
  /\ ~tCancelled
  /\ Types(emitted) = <<ERROR, END>>

\* C7: on a server-streaming call each inbound message emits one DATA
\* flagged stream=true; a transport error of code 1 emits nothing, of any
\* other code emits ERROR, followed by END iff the code is 2 or 14; the
\* stream's completion emits exactly one END.
C7_ServerStreamingEvents ==
  [][/\ (tData' # tData) =>
          /\ EventsKept
          /\ NewEvents = <<[type |-> DATA, stream |-> "true"]>>
     /\ (tError' /\ ~tError) =>
          /\ EventsKept
          /\ Types(NewEvents) =
               IF last'.arg = 1 THEN <<>>
               ELSE IF last'.arg \in {2, 14} THEN <<ERROR, END>>
               ELSE <<ERROR>>
     /\ (tEnd' /\ ~tEnd) =>
          /\ EventsKept
          /\ Types(NewEvents) = <<END>>]_vars

C7_Witness ==
  /\ methodDef.responseStream
  /\ tData = 1
  /\ tError /\ tEnd
  /\ last.op = "end"
  /\ Types(emitted) = <<DATA, ERROR, END>>

\* C8 (as stated): cancel() on a call whose send() has not run emits
\* exactly one END.
C8_PendingCancelEmitsEnd ==
  [][(CancelStep /\ _call = "undefined") =>
       Count(emitted', END) = Count(emitted, END) + 1]_vars

\* C8 (amended): cancel() on a call whose send() has not run emits nothing
\* and leaves the call pending, so that send() can still start it; cancel()
\* on a call whose send() has run emits exactly one END.
C8_PendingCancelIsNoOp ==
  [][CancelStep =>
       IF _call = "undefined"
         THEN emitted' = emitted /\ _call' = "undefined" /\ ~tCancelled'
         ELSE EventsKept /\ Types(NewEvents) = <<END>>]_vars

C8_Witness ==
  /\ cancels >= 1
  /\ ~tCancelled
  /\ _call = "set"
  /\ last.op = "send"
  /\ emitted = <<>>

----------------------------------------------------------------------------
\* Properties of the proto loader (checked under SpecLoad).

Outcome(k) == \E i \in 1..Len(outcomes) : outcomes[i] = k

\* C9: a batch with a non-import parse failure and a missing-import failure
\* reports status FAIL, whatever the order of the two files.
C9_FailTakesPrecedence ==
  (loadPc = "returned" /\ Outcome("other") /\ Outcome("enoent")) =>
     result.status = "fail"

\* C10 (as stated): the returned status is PARTIAL iff missingImports is
\* non-empty and at least one file parsed successfully.
C10_PartialIffMissingAndParsed ==
  loadPc = "returned" =>
    (result.status = "part" <=>
       (result.missingImports # <<>> /\ result.protos # <<>>))

\* C10 (amended): a returned status PARTIAL implies that missingImports is
\* non-empty, and a batch with a missing-import failure and no non-import
\* failure returns PARTIAL, whether or not any of its files parsed.
C10_PartialAndMissing ==
  loadPc = "returned" =>
    /\ result.status = "part" => result.missingImports # <<>>
    /\ (result.missingImports # <<>> /\ ~Outcome("other")) =>
          result.status = "part"

C10_Witness ==
  /\ loadPc = "returned"
  /\ result.status = "part"
  /\ result.missingImports # <<>>
  /\ result.protos = <<>>

\* Positions of the batch whose parse attempt had the outcome k, in order.
RECURSIVE Positions(_, _)
Positions(kinds, k) ==
  IF kinds = <<>> THEN <<>>
  ELSE LET init == Positions(SubSeq(kinds, 1, Len(kinds) - 1), k)
       IN IF kinds[Len(kinds)] = k THEN Append(init, Len(kinds)) ELSE init

\* C11: the batch is never aborted: every file is attempted, and the files
\* that parse are in protos, in input order, whatever the failures of the
\* other files and wherever they sit.
C11_ParsedFilesInOrder ==
  loadPc = "returned" =>
    /\ Len(outcomes) = Len(protoFiles)
    /\ LET ok == Positions(outcomes, "ok")
       IN /\ Len(result.protos) = Len(ok)
          /\ \A k \in 1..Len(ok) :
                result.protos[k].filePath =
                  Path(FALSE, protoFiles[ok[k]].filePath.rel)

C11_Witness ==
  /\ loadPc = "returned"
  /\ outcomes = <<"other", "ok">>
  /\ Len(result.protos) = 1

\* C12: for each file whose parse fails with import-not-found,
\* missingImports has an entry keyed by that file's relative path whose
\* missing list names an import that a parse attempt of that file could not
\* resolve; when no file fails otherwise, the parsed files are in protos and
\* the status is PARTIAL.
C12_MissingEntryNamesImport ==
  loadPc = "returned" =>
    /\ \A i \in 1..Len(attempts) :
         attempts[i].kind = "enoent" =>
           \E j \in 1..Len(result.missingImports) :
             /\ result.missingImports[j].filePath =
                  getRelativePath(protoFiles[i].filePath)
             /\ \E m \in 1..Len(result.missingImports[j].missing),
                   i2 \in 1..Len(attempts) :
                  /\ attempts[i2].kind = "enoent"
                  /\ getRelativePath(protoFiles[i2].filePath) =
                       getRelativePath(protoFiles[i].filePath)
                  /\ result.missingImports[j].missing[m].filePath =
                       getRelativePath(attempts[i2].errPath)
    /\ (Outcome("enoent") /\ ~Outcome("other")) =>
         /\ result.status = "part"
         /\ Len(result.protos) = Len(Positions(outcomes, "ok"))

\* C14: every filePath of the result (of a loaded proto, of its attached
\* imports, of a missingImports entry, of its missing entries and of its
\* imports) is relative to the sandbox root.
AllRelative(list) == \A i \in 1..Len(list) : ~list[i].filePath.abs

----------------------------------------------------------------------------
\* Properties of the two-stage load (checked under SpecStages).

\* The stepwise loader and its closed form agree on every batch (checked
\* under SpecLoad).
LoadLoopAgrees ==
  loadPc = "returned" => result = loadProtos(protoFiles, attempts)

\* No two entries of the list have the same filePath.
UniquePaths(list) ==
  \A i, j \in 1..Len(list) : list[i].filePath = list[j].filePath => i = j

\* The relative paths of the imports known for the file.
KnownImports(file) ==
  {RelativeImports(file.imports)[i].filePath :
     i \in 1..Len(RelativeImports(file.imports))}

\* The import-not-found failures of a load: the relative path of the
\* requesting file and its known imports.
Failures(load) ==
  {[filePath |-> getRelativePath(load.batch[i].filePath),
    imports |-> KnownImports(load.batch[i])] :
     i \in {k \in 1..Len(load.batch) : load.attempts[k].kind = "enoent"}}

\* C13 (entries): when the handler answers, missingImports holds at most
\* one entry per requesting file path and no entry lists two imports with
\* the same path.
C13_OneEntryPerFile ==
  stagePc = "sent" =>
    /\ UniquePaths(final.missingImports)
    /\ \A i \in 1..Len(final.missingImports) :
         UniquePaths(final.missingImports[i].imports)

\* C13 (merge): the entry of a file lists the known imports of every
\* import-not-found failure of that file, in Stage 1 and in Stage 2.
C13_FailuresMerged ==
  stagePc = "sent" =>
    \A i \in 1..Len(final.missingImports) :
      \A f \in Failures(stage1) \cup Failures(stage2) :
        f.filePath = final.missingImports[i].filePath =>
          f.imports \subseteq
            {final.missingImports[i].imports[j].filePath :
               j \in 1..Len(final.missingImports[i].imports)}

\* The paths of the entries of a list.
PathsOf(list) == {list[i].filePath : i \in 1..Len(list)}

\* C15: a file that Stage 1 reported in missingImports and that Stage 2
\* parsed is not in the missingImports of the answer.
C15_ResolvedNotMissing ==
  stagePc = "sent" =>
    \A k \in PathsOf(stage1.res.missingImports) :
      k \in PathsOf(stage2.res.protos) => k \notin PathsOf(final.missingImports)

\* C16: the answer has status OK only if its missingImports is empty,
\* whether Stage 2 loaded, was skipped or could not fetch.
C16_OkOnlyIfNothingMissing ==
  stagePc = "sent" /\ final.status = "ok" => final.missingImports = <<>>

\* A file that Stage 1 reported missing is parsed by Stage 2 and the answer
\* is OK.
C16_Witness ==
  /\ stagePc = "sent"
  /\ final.status = "ok"
  /\ stage1.res.missingImports # <<>>
  /\ stage2.fetched
  /\ PathsOf(stage1.res.missingImports) \subseteq PathsOf(stage2.res.protos)

\* C17: a file loaded in Stage 1 is not among the files Stage 2 fetches and
\* parses, and it is once in the protos of the answer.
C17_LoadedOnce ==
  /\ stagePc # "stage1" =>
       \A k \in PathsOf(stage1.res.protos) :
         \A i \in 1..Len(toGet) : getRelativePath(toGet[i].filePath) # k
  /\ stagePc = "sent" => UniquePaths(final.protos)

----------------------------------------------------------------------------
\* Properties of placeholder resolution (checked under SpecResolve) and of
\* the library cache (checked under SpecLibrary).

\* C18: no step of a resolve request, in any interleaving of the requests,
\* changes the content of a sandbox file that exists.
C18_NeverOverwrites ==
  [][\A n \in SandboxNames :
       sandbox[n] # "absent" => sandbox'[n] = sandbox[n]]_vars

\* A request has saved a fetched content for a path where a file with
\* another content existed.
C18_Witness ==
  \E r \in Requests :
    /\ req[r].pc = "done"
    /\ req[r].existed
    /\ req[r].file.content \in Contents
    /\ sandbox[Location(req[r].ref.filePath)] # req[r].file.content

\* C19: a placeholder or library resolved again while its target is in the
\* sandbox or the cache is resolved without a remote read and, once saved,
\* the target holds what the first resolution yielded.
C19_NoRefetchSameContent ==
  /\ \A r \in Requests :
       req[r].pc # "idle" /\ req[r].again /\ req[r].existed =>
         /\ req[r].fetched = 0
         /\ req[r].pc = "done" =>
              \A y \in yields :
                y.ref = req[r].ref =>
                  sandbox[Location(req[r].ref.filePath)] = y.content
  /\ lastLib.ran /\ lastLib.again /\ lastLib.existed => ~lastLib.res.fetched

\* The paths of the files below a directory tree.
RECURSIVE FilesUnder(_)
FilesUnder(entries) ==
  UNION {IF entries[i].isDir
           THEN {<<entries[i].name>> \o q : q \in FilesUnder(entries[i].children)}
           ELSE {<<entries[i].name>>} : i \in 1..Len(entries)}

\* The result holds exactly the files of the cache directory of the library.
ReturnsCachedFiles(call) ==
  /\ ~call.res.fetched
  /\ ~call.res.error
  /\ Len(call.res.files) = Cardinality(FilesUnder(libCache[LibDir(call.lib)].tree))
  /\ PathsOf(call.res.files) =
       {LibDir(call.lib) \o q : q \in FilesUnder(libCache[LibDir(call.lib)].tree)}

\* The tree was fetched and, unless the fetch failed, the result holds its
\* files.
ReturnsFetchedTree(call) ==
  /\ call.res.fetched
  /\ ~call.res.error =>
       /\ Len(call.res.files) = Len(TreeFiles(remote))
       /\ PathsOf(call.res.files) =
            {LibDir(call.lib) \o TreeFiles(remote)[i].path :
               i \in 1..Len(TreeFiles(remote))}

\* Nothing is returned, fetched or raised.
ReturnsNothing(call) ==
  call.res = [fetched |-> FALSE, error |-> FALSE, files |-> <<>>]

\* C20 (as stated): readLibrary returns the files under the cache directory
\* without a fetch if the directory exists; otherwise the fetched tree if a
\* url is given; otherwise an empty list and no error.
C20_ReadLibraryResult ==
  lastLib.ran =>
    /\ lastLib.existed => ReturnsCachedFiles(lastLib)
    /\ ~lastLib.existed /\ lastLib.lib.url # "" => ReturnsFetchedTree(lastLib)
    /\ ~lastLib.existed /\ lastLib.lib.url = "" => ReturnsNothing(lastLib)

\* C20 (amended): the cache directory is used when it exists and can be
\* listed; when it does not exist or listing it fails, the tree is fetched
\* if a url is given and the reader has readTree; otherwise the result is
\* an empty list and no error.
C20_ReadLibraryResultListable ==
  lastLib.ran =>
    LET cached == lastLib.existed /\ ~lastLib.threw
        canFetch == lastLib.lib.url # "" /\ lastLib.readTree
    IN /\ cached => ReturnsCachedFiles(lastLib)
       /\ ~cached /\ canFetch => ReturnsFetchedTree(lastLib)
       /\ ~cached /\ ~canFetch => ReturnsNothing(lastLib)

\* A library with a url is read from a cache directory that holds a file
\* and a subdirectory with a file.
C20_Witness ==
  /\ lastLib.ran
  /\ lastLib.existed
  /\ ~lastLib.threw
  /\ lastLib.lib.url # ""
  /\ Len(lastLib.res.files) = 2
  /\ ~lastLib.res.fetched

----------------------------------------------------------------------------
\* Properties of request streaming (checked under Spec).

\* The step is one write() invocation.
WriteStep == writes' = writes + 1

\* The call is ACTIVE: the call object exists and neither a cancel, an end
\* nor a terminal response or error has closed it.
CallActive ==
  /\ _call = "set"
  /\ ~tCancelled /\ ~tCallback /\ ~tError /\ ~tEnd
  /\ Count(emitted, END) = 0

\* C24: for a request-streaming method, a message written by write() before
\* any commitStream() is on the wire before every half-close.
C24_WritesBeforeHalfClose ==
  methodDef.requestStream =>
    \A i \in 1..Len(wire) :
      (/\ wire[i] = Msg("write", 0)
       /\ \A j \in 1..(i - 1) : wire[j] # HalfClose("commitStream"))
      => \A j \in 1..(i - 1) : wire[j].kind # "end"

\* C25: write() hands a message to the transport only while the call is
\* ACTIVE and the method is request-streaming, and it never throws.
C25_WriteOnlyWhenActive ==
  [][WriteStep =>
       /\ wire' # wire => CallActive /\ methodDef.requestStream
       /\ last'.res # "threw"]_vars

\* C26: the wire of a client-streaming send() is the payloads of
\* inputs.stream in their order followed by the half-close, or the single
\* input object followed by the half-close.
C26_SendWritesThenHalfCloses ==
  last.op = "send" /\ methodDef.requestStream =>
    IF inputs.isArray
      THEN /\ Len(wire) = inputs.n + 1
           /\ \A i \in 1..inputs.n : wire[i] = Msg("send", i)
           /\ wire[inputs.n + 1] = HalfClose("send")
      ELSE wire = <<Msg("send", 0), HalfClose("send")>>

\* send() has written a stream of two payloads.
C26_Witness ==
  /\ last.op = "send"
  /\ methodDef.requestStream
  /\ inputs.isArray
  /\ inputs.n = 2

\* C30 (as stated): a write() of invalid JSON emits ERROR then END, hands
\* nothing to the transport and does not throw.
C30_InvalidWriteEmitsErrorEnd ==
  [][WriteStep /\ last'.arg = 0 =>
       /\ Types(NewEvents) = <<ERROR, END>>
       /\ wire' = wire
       /\ last'.res # "threw"]_vars

\* C30 (amended): a write() of invalid JSON hands nothing to the transport
\* and does not throw; it emits ERROR then END when the call object exists
\* and nothing before send().
C30_InvalidWriteAfterSend ==
  [][WriteStep /\ last'.arg = 0 =>
       /\ Types(NewEvents) =
            IF _call = "set" THEN <<ERROR, END>> ELSE <<>>
       /\ wire' = wire
       /\ last'.res # "threw"]_vars

\* A write() of invalid JSON was made after send().
C30_Witness ==
  /\ last.op = "write"
  /\ last.arg = 0
  /\ last.res = "parse_error"
  /\ Len(emitted) >= 2
  /\ emitted[Len(emitted)].type = END
  /\ emitted[Len(emitted) - 1].type = ERROR

----------------------------------------------------------------------------
\* C21 (checked under SpecStages): when the content reader fails while the
\* placeholders of Stage 2 are resolved, the handler does not send an
\* ordinary result.
C21_ReadErrorPropagates ==
  stage2.ran /\ ~stage2.fetched => stagePc # "sent"
----------------------------------------------------------------------------
(***************************************************************************)
(* SpecTls: the TLS material of one send-request.  The handler ensures     *)
(* the certificate files the request names (src/src/service/router.ts,     *)
(* ensureCertFile), replies with a partial result when some are missing,   *)
(* and otherwise creates the GRPCRequest whose send() builds the client    *)
(* (src/src/api/sendRequest.ts, getClient).                                *)
(***************************************************************************)

\* The tlsCertificate values sendRequestInput accepts: rootCert is required,
\* everything else optional; useServerCertificate is a boolean when given.
TlsCertificates ==
  {NoTls} \cup
  [present : {TRUE}, id : BOOLEAN,
   useServerCertificate : {"undefined", "false", "true"},
   sslTargetHost : BOOLEAN, privateKey : BOOLEAN, certChain : BOOLEAN]

\* What certStore.getCertFile(id, type) does: no row, a row without
\* content, a row with content, or a rejected promise.
StoreOutcomes == {"none", "empty", "content", "throws"}

\* tlsCertificate[t] is present.
Supplied(tls, t) ==
  /\ tls.present
  /\ \/ t = "rootCert"
     \/ t = "privateKey" /\ tls.privateKey
     \/ t = "certChain" /\ tls.certChain

\* The files handed to ensureCertFile, in order.
ToEnsure(tls) ==
  IF tls.present /\ tls.useServerCertificate # "true"
    THEN SelectSeq(CertTypes, LAMBDA t : Supplied(tls, t))
    ELSE <<>>

\* ensureCertFile: an absent file is recovered when a store is configured,
\* the certificate has an id and getCertFile yields content.
CanRecoverEmpty(hasStore, tls, outcome) ==
  hasStore /\ tls.id /\ outcome \in {"content", "empty"}
CanRecover(hasStore, tls, outcome) ==
  hasStore /\ tls.id /\ outcome = "content"

\* getClient(): credentials, the files read (readFileSync) and the
\* target-name override.
getClientAlwaysReads(tls, files) ==
  IF ~tls.present
    THEN [creds |-> "insecure", reads |-> <<>>, override |-> FALSE,
          threw |-> FALSE]
    ELSE LET reads == SelectSeq(CertTypes, LAMBDA t : Supplied(tls, t))
         IN  [creds |-> IF tls.useServerCertificate = "true"
                          THEN "ssl-default" ELSE "ssl-files",
              reads |-> reads,
              override |-> tls.sslTargetHost,
              threw |-> \E k \in 1..Len(reads) : files[reads[k]] = "absent"]
getClient(tls, files) ==
  IF ~tls.present
    THEN [creds |-> "insecure", reads |-> <<>>, override |-> FALSE,
          threw |-> FALSE]
    ELSE IF tls.useServerCertificate = "true"
      THEN [creds |-> "ssl-default", reads |-> <<>>,
            override |-> tls.sslTargetHost, threw |-> FALSE]
      ELSE LET reads == SelectSeq(CertTypes, LAMBDA t : Supplied(tls, t))
           IN  [creds |-> "ssl-files", reads |-> reads,
                override |-> tls.sslTargetHost,
                threw |-> \E k \in 1..Len(reads) :
                            files[reads[k]] = "absent"]

\* The request arrives with its TLS material; the sandbox's certs directory
\* and the store hold whatever earlier uploads left there.
InitTls ==
  /\ CallIdle
  /\ LoadIdle
  /\ StageIdle
  /\ ResolveIdle
  /\ ProxyIdle
  /\ StoreIdle
  /\ PathIdle
  /\ PairIdle
  /\ tlsCertificate \in TlsCertificates
  /\ certStore \in BOOLEAN
  /\ disk \in [CertTypeSet -> {"absent", "present"}]
  /\ stored \in [CertTypeSet -> StoreOutcomes]
  /\ ensured = 0
  /\ missingCerts = <<>>
  /\ tlsPc = "ensure"
  /\ client = NoClient

\* One awaited ensureCertFile(cert) call.
EnsureCertFile ==
  /\ tlsPc = "ensure"
  /\ ensured < Len(ToEnsure(tlsCertificate))
  /\ LET t == ToEnsure(tlsCertificate)[ensured + 1]
     IN  IF disk[t] # "absent"
           THEN UNCHANGED <<disk, missingCerts>>
           ELSE IF CanRecover(certStore, tlsCertificate, stored[t])
             THEN /\ disk' = [disk EXCEPT ![t] = "recovered"]
                  /\ UNCHANGED missingCerts
             ELSE /\ missingCerts' = Append(missingCerts, t)
                  /\ UNCHANGED disk
  /\ ensured' = ensured + 1
  /\ UNCHANGED <<tlsCertificate, certStore, stored, tlsPc, client>>
  /\ UNCHANGED <<callVars, loadVars, stageVars, resolveVars, proxyVars,
                 storeVars, pathVars, pairVars>>

\* if (missingCerts.length): status 400 with the partial result, and return.
ReplyPartial ==
  /\ tlsPc = "ensure"
  /\ ensured = Len(ToEnsure(tlsCertificate))
  /\ missingCerts # <<>>
  /\ tlsPc' = "partial"
  /\ UNCHANGED <<tlsCertificate, certStore, disk, stored, ensured,
                 missingCerts, client>>
  /\ UNCHANGED <<callVars, loadVars, stageVars, resolveVars, proxyVars,
                 storeVars, pathVars, pairVars>>

\* new GRPCRequest(...).send(): the client is built by getClient().
GetClient ==
  /\ tlsPc = "ensure"
  /\ ensured = Len(ToEnsure(tlsCertificate))
  /\ missingCerts = <<>>
  /\ client' = getClient(tlsCertificate, disk)
  /\ tlsPc' = "called"
  /\ UNCHANGED <<tlsCertificate, certStore, disk, stored, ensured,
                 missingCerts>>
  /\ UNCHANGED <<callVars, loadVars, stageVars, resolveVars, proxyVars,
                 storeVars, pathVars, pairVars>>

NextTls == EnsureCertFile \/ ReplyPartial \/ GetClient
SpecTls == InitTls /\ [][NextTls]_vars

\* C22: the channel credentials follow from the TLS material alone: none
\* gives an insecure channel and no file read; useServerCertificate = true
\* gives TLS on the default trust store and no file read; otherwise TLS from
\* the root CA file, the private key and the cert chain being read exactly
\* when supplied; the target-host override is applied whenever TLS material
\* carries one.
ReadsOf(c) == {c.reads[k] : k \in 1..Len(c.reads)}
C22_WitnessServerCertificate ==
  /\ tlsPc = "called"
  /\ client.creds = "ssl-default"
  /\ tlsCertificate.privateKey
  /\ client.override

\* C23: when the request names certificate files, missingCerts lists
\* exactly the named files that are absent on disk and that the store cannot
\* give back; a non-empty list is answered as a partial result and no client
\* is built.
Recoverable(t) == certStore /\ tlsCertificate.id /\ stored[t] = "content"
Missing == {missingCerts[k] : k \in 1..Len(missingCerts)}
C23_MissingCertsExact ==
  /\ tlsCertificate.present
  /\ tlsCertificate.useServerCertificate # "true"
  /\ tlsPc \in {"partial", "called"}
  => /\ \A t \in CertTypeSet :
          t \in Missing <=> /\ Supplied(tlsCertificate, t)
                            /\ disk[t] = "absent"
                            /\ ~Recoverable(t)
     /\ \A t \in CertTypeSet : disk[t] = "recovered" => Recoverable(t)
     /\ \A t \in CertTypeSet :
          Supplied(tlsCertificate, t) /\ Recoverable(t) => disk[t] # "absent"
     /\ Len(missingCerts) = Cardinality(Missing)
     /\ Missing # {} => tlsPc = "partial" /\ client = NoClient
C23_Witness ==
  /\ tlsPc = "partial"
  /\ Missing = {"privateKey"}
  /\ disk["rootCert"] = "recovered"
  /\ stored["privateKey"] = "throws"

----------------------------------------------------------------------------
(***************************************************************************)
(* SpecProxy: the proxy workaround of the send-request handler             *)
(* (src/src/service/router.ts).  Every invocation saves the three proxy    *)
(* variables of process.env, deletes them before send() when               *)
(* no_grpc_playground_proxy is set, and writes the saved values back in    *)
(* its END listener.  Invocations interleave at every await.               *)
(***************************************************************************)

\* process.env holds strings: assigning undefined stores "undefined".
EnvAssign(value) == IF value = "unset" THEN "undefined" ELSE value

\* The process runs with or without the workaround; each proxy variable is
\* set or not.
InitProxy ==
  /\ CallIdle
  /\ LoadIdle
  /\ StageIdle
  /\ ResolveIdle
  /\ TlsIdle
  /\ StoreIdle
  /\ PathIdle
  /\ PairIdle
  /\ env \in [ProxyNames -> {"unset", "proxy"}]
  /\ envBefore = env
  /\ noProxy \in BOOLEAN
  /\ inv = [i \in Invocations |-> IdleInvocation]

\* const currentHttpProxy = process.env.http_proxy; and the two others.
SaveProxy(i) ==
  /\ inv[i].pc = "idle"
  /\ inv' = [inv EXCEPT ![i] = [pc |-> "saved", saved |-> env]]
  /\ UNCHANGED <<env, envBefore, noProxy>>
  /\ UNCHANGED <<callVars, loadVars, stageVars, resolveVars, tlsVars,
                 storeVars, pathVars, pairVars>>

\* Certificate files are missing: status 400, return.
ReturnMissingCerts(i) ==
  /\ inv[i].pc = "saved"
  /\ inv' = [inv EXCEPT ![i].pc = "returned"]
  /\ UNCHANGED <<env, envBefore, noProxy>>
  /\ UNCHANGED <<callVars, loadVars, stageVars, resolveVars, tlsVars,
                 storeVars, pathVars, pairVars>>

\* The variables are deleted when the workaround is on; then send().
DeleteProxyAndSend(i) ==
  /\ inv[i].pc = "saved"
  /\ inv' = [inv EXCEPT ![i].pc = "sent"]
  /\ env' = IF noProxy THEN [v \in ProxyNames |-> "unset"] ELSE env
  /\ UNCHANGED <<envBefore, noProxy>>
  /\ UNCHANGED <<callVars, loadVars, stageVars, resolveVars, tlsVars,
                 storeVars, pathVars, pairVars>>

\* onEnd: res.end(), and the saved values are assigned back.
OnEnd(i) ==
  /\ inv[i].pc = "sent"
  /\ inv' = [inv EXCEPT ![i].pc = "ended"]
  /\ env' = IF noProxy
              THEN [v \in ProxyNames |-> EnvAssign(inv[i].saved[v])]
              ELSE env
  /\ UNCHANGED <<envBefore, noProxy>>
  /\ UNCHANGED <<callVars, loadVars, stageVars, resolveVars, tlsVars,
                 storeVars, pathVars, pairVars>>

NextProxy ==
  \E i \in Invocations :
    \/ SaveProxy(i)
    \/ ReturnMissingCerts(i)
    \/ DeleteProxyAndSend(i)
    \/ OnEnd(i)
SpecProxy == InitProxy /\ [][NextProxy]_vars

\* C27: with the workaround on, once every invocation that started has
\* ended, the three proxy variables hold the values they had before the
\* first invocation started.
AllEnded ==
  /\ \A i \in Invocations : inv[i].pc \in {"idle", "returned", "ended"}
  /\ \E i \in Invocations : inv[i].pc = "ended"
C27_ProxyEnvRestored ==
  noProxy /\ AllEnded => env = envBefore

\* C27, read up to the difference between an unset variable and one holding
\* the string "undefined": the variables that were set are set as before,
\* and those that were not hold no proxy.
C27_ProxySettingsRestored ==
  noProxy /\ AllEnded =>
    \A v \in ProxyNames : (env[v] = "proxy") <=> (envBefore[v] = "proxy")

----------------------------------------------------------------------------
(***************************************************************************)
(* SpecStore: a certificate store, MemoryCertStore                         *)
(* (src/src/service/CertStore/MemoryStore.ts) or DatabaseCertStore         *)
(* (src/unnamed/part_011), driven by its callers.  Both keep certificate   *)
(* rows and, per certificate and type, a certificate file row whose        *)
(* content went through the encoder (src/src/service/CertStore/encrypt.ts).*)
(***************************************************************************)

FilePaths == {"a.pem", "b.pem"}
\* File contents: strings over two symbols, the empty string included.
Plaintexts == {<<>>, <<1>>, <<2>>}
\* The file types the callers update.
UpdateTypes == {"rootCert", "privateKey"}

\* The cipher: a keyed, invertible substitution of every block, and one
\* more block of padding that the decipher strips.
SecretKey == 5
BlockSpace == 16
PadBlock == 0
EncryptBlock(b) == (b + SecretKey) % BlockSpace
DecryptBlock(c) == (c + BlockSpace - SecretKey) % BlockSpace
encodePlain(data) == data
encode(data) ==
  [k \in 1..Len(data) + 1 |->
     IF k <= Len(data) THEN EncryptBlock(data[k]) ELSE EncryptBlock(PadBlock)]
decode(encoded) ==
  [k \in 1..Len(encoded) - 1 |-> DecryptBlock(encoded[k])]

\* toDBCertFile: the row of a certificate file; content is encoded when it
\* is truthy and left out otherwise.
toDBCertFile(filePath, content) ==
  [present |-> TRUE, filePath |-> filePath,
   content |-> IF content # <<>> THEN encode(content) ELSE <<>>]

\* The ids of the certificate rows, and those of one entity in row order.
CertificateIds == {certificates[k].id : k \in 1..Len(certificates)}
EntityCertificates(entityName) ==
  SelectSeq(certificates, LAMBDA c : c.entity = entityName)

\* The certificate insertCertificateIfNeeded takes as existing (0: none).
\* MemoryCertStore compares the root certificate's path; DatabaseCertStore
\* joins the entity's certificates with their files and compares file_path.
MemoryMatches(c, filePath) ==
  /\ certFiles[<<c.id, "rootCert">>].present
  /\ certFiles[<<c.id, "rootCert">>].filePath = filePath
DatabaseMatches(c, filePath) ==
  \E t \in CertTypeSet :
    /\ certFiles[<<c.id, t>>].present
    /\ certFiles[<<c.id, t>>].filePath = filePath
ExistingCertificate(entityName, filePath) ==
  LET found == SelectSeq(EntityCertificates(entityName),
                         LAMBDA c : IF storeKind = "memory"
                                      THEN MemoryMatches(c, filePath)
                                      ELSE DatabaseMatches(c, filePath))
  IN  IF found = <<>> THEN 0 ELSE found[1].id

\* getCertFile(id, certType): the row, its content decoded when it has one.
getCertFile(id, certType) ==
  LET row == certFiles[<<id, certType>>]
      known == storeKind = "database" \/ id \in CertificateIds
  IN  IF known /\ row.present
        THEN [found |-> TRUE, hasContent |-> row.content # <<>>,
              content |-> IF row.content # <<>> THEN decode(row.content)
                                                ELSE <<>>]
        ELSE [found |-> FALSE, hasContent |-> FALSE, content |-> <<>>]

\* A store has been created; nothing is in it.
InitStore ==
  /\ CallIdle
  /\ LoadIdle
  /\ StageIdle
  /\ ResolveIdle
  /\ TlsIdle
  /\ ProxyIdle
  /\ PathIdle
  /\ PairIdle
  /\ storeKind \in {"memory", "database"}
  /\ certificates = <<>>
  /\ certFiles = [k \in Ids \X CertTypeSet |-> NoCertFile]
  /\ nextId = 1
  /\ given = [k \in Ids \X CertTypeSet |-> NotGiven]
  /\ storeOps = 0
  /\ lastStore = NoStoreCall

\* insertCertificateIfNeeded(entityName, rootCert): the existing
\* certificate's root file is updated, or a certificate is inserted.
InsertCertificateIfNeeded(entityName, filePath, content) ==
  /\ storeOps < MaxStoreOps
  /\ LET existing == ExistingCertificate(entityName, filePath)
         id == IF existing # 0 THEN existing ELSE nextId
     IN  /\ existing = 0 => nextId <= MaxCerts
         /\ IF existing # 0
              THEN UNCHANGED <<certificates, nextId>>
              ELSE /\ certificates' =
                        Append(certificates,
                               [id |-> nextId, entity |-> entityName])
                   /\ nextId' = nextId + 1
         /\ certFiles' = [certFiles EXCEPT ![<<id, "rootCert">>] =
                                             toDBCertFile(filePath, content)]
         /\ given' = [given EXCEPT ![<<id, "rootCert">>] =
                                     [called |-> TRUE, content |-> content]]
         /\ lastStore' = [op |-> "insertCertificateIfNeeded",
                          entity |-> entityName, filePath |-> filePath,
                          id |-> id]
  /\ storeOps' = storeOps + 1
  /\ UNCHANGED storeKind
  /\ UNCHANGED <<callVars, loadVars, stageVars, resolveVars, tlsVars,
                 proxyVars, pathVars, pairVars>>

\* updateCertificate(id, cert), for an id the store has issued:
\* MemoryCertStore replaces the file of a
\* certificate it holds and ignores any other id; DatabaseCertStore
\* upserts the file row.
UpdateCertificate(id, type, filePath, content) ==
  /\ storeOps < MaxStoreOps
  /\ id < nextId
  /\ certFiles' = IF storeKind = "database" \/ id \in CertificateIds
                    THEN [certFiles EXCEPT ![<<id, type>>] =
                                             toDBCertFile(filePath, content)]
                    ELSE certFiles
  /\ given' = [given EXCEPT ![<<id, type>>] =
                              [called |-> TRUE, content |-> content]]
  /\ lastStore' = NoStoreCall
  /\ storeOps' = storeOps + 1
  /\ UNCHANGED <<storeKind, certificates, nextId>>
  /\ UNCHANGED <<callVars, loadVars, stageVars, resolveVars, tlsVars,
                 proxyVars, pathVars, pairVars>>

\* deleteCertificate(id): the certificate row goes, and its files with it;
\* DatabaseCertStore deletes the files only when it deleted a row.
DeleteCertificate(id) ==
  /\ storeOps < MaxStoreOps
  /\ id < nextId
  /\ certificates' = SelectSeq(certificates, LAMBDA c : c.id # id)
  /\ certFiles' = IF id \in CertificateIds
                    THEN [k \in Ids \X CertTypeSet |->
                            IF k[1] = id THEN NoCertFile ELSE certFiles[k]]
                    ELSE certFiles
  /\ lastStore' = NoStoreCall
  /\ storeOps' = storeOps + 1
  /\ UNCHANGED <<storeKind, nextId, given>>
  /\ UNCHANGED <<callVars, loadVars, stageVars, resolveVars, tlsVars,
                 proxyVars, pathVars, pairVars>>

NextStore ==
  \/ \E e \in Entities, p \in FilePaths, c \in Plaintexts :
       InsertCertificateIfNeeded(e, p, c)
  \/ \E id \in Ids, t \in UpdateTypes, p \in FilePaths, c \in Plaintexts :
       UpdateCertificate(id, t, p, c)
  \/ \E id \in Ids : DeleteCertificate(id)
SpecStore == InitStore /\ [][NextStore]_vars

\* C28 as stated: whatever was done to the store, getCertFile(id, type)
\* returns the plaintext last given for (id, type), and the store holds
\* something else than that plaintext.
ReadsBack(k) ==
  /\ getCertFile(k[1], k[2]).found
  /\ getCertFile(k[1], k[2]).hasContent
  /\ getCertFile(k[1], k[2]).content = given[k].content
  /\ certFiles[k].content # given[k].content
WithRootCert(entityName, filePath) ==
  {c.id : c \in {certificates[k] : k \in 1..Len(certificates)}
            \cap [id : Ids, entity : {entityName}]}
    \cap {id \in Ids : /\ certFiles[<<id, "rootCert">>].present
                       /\ certFiles[<<id, "rootCert">>].filePath = filePath}
InsertStep ==
  /\ storeOps' = storeOps + 1
  /\ lastStore'.op = "insertCertificateIfNeeded"
InsertContract ==
  LET existing == WithRootCert(lastStore'.entity, lastStore'.filePath)
  IN  /\ existing # {} =>
           lastStore'.id \in existing /\ certificates' = certificates
      /\ existing = {} =>
           /\ lastStore'.id \notin CertificateIds
           /\ certificates' =
                Append(certificates, [id |-> lastStore'.id,
                                      entity |-> lastStore'.entity])
      /\ /\ lastStore.op = "insertCertificateIfNeeded"
         /\ lastStore.entity = lastStore'.entity
         /\ lastStore.filePath = lastStore'.filePath
         => lastStore'.id = lastStore.id /\ certificates' = certificates
C29_InsertIfNeeded == [][InsertStep => InsertContract]_vars

\* C29 for MemoryCertStore alone.
C29_MemoryInsertIfNeeded ==
  [][InsertStep /\ storeKind = "memory" => InsertContract]_vars

----------------------------------------------------------------------------
\* C31: the missing-import path recorded for a file comes from that file's
\* own parse attempt: from the warning the attempt raised or from the path
\* of the error it threw, never from what handleWarning captured while an
\* earlier file of the batch was parsed.
RecordsMissing ==
  /\ loadPc = "loop"
  /\ idx' = idx + 1
  /\ Len(missingMap') = Len(missingMap) + 1
OwnPaths(o) ==
  {getRelativePath(p) : p \in {o.warning, o.errPath} \ {EmptyPath}}
C31_CapturedFromOwnAttempt ==
  [][RecordsMissing =>
       \A m \in 1..Len(missingMap'[Len(missingMap')].missing) :
         missingMap'[Len(missingMap')].missing[m].filePath
           \in OwnPaths(attempts'[idx])]_vars

----------------------------------------------------------------------------
\* C35: the 5s/7s deadline is attached only to unary and client-streaming
\* calls: a call whose response is a stream (server-streaming or
\* bidirectional) is issued without it.
C35_NoDeadlineOnResponseStream ==
  _call = "set" /\ methodDef.responseStream =>
    callOptions.deadline = NoDeadline

----------------------------------------------------------------------------
\* C32: when the two-stage load answers with status OK, every file listed
\* in the entity spec's files is among the protos of the answer.
InProtos(file) ==
  \E k \in 1..Len(final.protos) :
    final.protos[k].filePath = getRelativePath(file.filePath)
C32_OkMeansEveryFileLoaded ==
  stagePc = "sent" /\ final.status = "ok" =>
    \A i \in 1..Len(fullSpec.files) : InProtos(fullSpec.files[i])

\* C32 for the requests whose Stage 2 fetch did not fail.
C32_OkMeansEveryFileLoadedWhenFetched ==
  stagePc = "sent" /\ final.status = "ok" /\ (stage2.ran => stage2.fetched) =>
    \A i \in 1..Len(fullSpec.files) : InProtos(fullSpec.files[i])

----------------------------------------------------------------------------
(***************************************************************************)
(* SpecPaths: getAllPossibleSubPaths(basePath, ...paths)                   *)
(* (src/src/service/utils.ts), one step per iteration of its forEach and   *)
(* of its while-loop.  Paths are POSIX path strings.                       *)
(***************************************************************************)

\* path.dirname(p): the path without its last segment and without trailing
\* separator; "/" for an absolute path of at most one segment and "." for
\* a relative one.
dirname(p) ==
  IF Len(p.segs) <= 1
    THEN IF p.abs THEN Str(TRUE, <<>>, FALSE) ELSE Str(FALSE, <<".">>, FALSE)
    ELSE Str(p.abs, SubSeq(p.segs, 1, Len(p.segs) - 1), FALSE)

\* The segments of an absolute path once resolved: "." dropped, ".."
\* removing the segment before it.
RECURSIVE Normalize(_, _)
Normalize(done, rest) ==
  IF rest = <<>> THEN done
  ELSE IF Head(rest) = "." THEN Normalize(done, Tail(rest))
  ELSE IF Head(rest) = ".."
    THEN Normalize(IF done = <<>> THEN <<>>
                   ELSE SubSeq(done, 1, Len(done) - 1), Tail(rest))
  ELSE Normalize(Append(done, Head(rest)), Tail(rest))

\* The number of leading segments two resolved paths share.
CommonPrefix(f, t) ==
  CHOOSE n \in 0..Len(f) :
    /\ n <= Len(t)
    /\ \A k \in 1..n : f[k] = t[k]
    /\ n = Len(f) \/ n = Len(t) \/ f[n + 1] # t[n + 1]

\* path.relative(from, to), both absolute: ".." for every segment of from
\* after the common prefix, then the rest of to; "" when they are equal.
relative(from, to) ==
  LET f == Normalize(<<>>, from.segs)
      t == Normalize(<<>>, to.segs)
      n == CommonPrefix(f, t)
  IN  Str(FALSE, [k \in 1..(Len(f) - n) |-> ".."] \o SubSeq(t, n + 1, Len(t)),
          FALSE)

\* getRelativePath(from, to) of utils.ts.
getRelativePathFrom(from, to) == IF to.abs THEN relative(from, to) ELSE to

\* relativePath.startsWith('../')
StartsWithParent(p) ==
  /\ ~p.abs
  /\ Len(p.segs) >= 1
  /\ p.segs[1] = ".."
  /\ Len(p.segs) >= 2 \/ p.trail

\* if (!relativePath || relativePath.startsWith('../')) return;
Skipped(root, str) ==
  \/ getRelativePathFrom(root, str) = EmptyStr
  \/ StartsWithParent(getRelativePathFrom(root, str))

\* The roots: /r, /r/s, and /r/ written with a trailing separator.
Roots ==
  {Str(TRUE, <<"r">>, FALSE), Str(TRUE, <<"r", "s">>, FALSE),
   Str(TRUE, <<"r">>, TRUE)}

\* The input paths: /r/a.proto, /r/s/b.proto, /r/s/../a.proto, /r/s, /r, /,
\* /t/b.proto, a.proto, ../a.proto and the empty string.
InputPaths ==
  {Str(TRUE, <<"r", "a.proto">>, FALSE),
   Str(TRUE, <<"r", "s", "b.proto">>, FALSE),
   Str(TRUE, <<"r", "s", "..", "a.proto">>, FALSE),
   Str(TRUE, <<"r", "s">>, FALSE),
   Str(TRUE, <<"r">>, FALSE),
   Str(TRUE, <<>>, FALSE),
   Str(TRUE, <<"t", "b.proto">>, FALSE),
   Str(FALSE, <<"a.proto">>, FALSE),
   Str(FALSE, <<"..", "a.proto">>, FALSE),
   EmptyStr}

\* The call: a root and one or more paths.
InitPaths ==
  /\ CallIdle
  /\ LoadIdle
  /\ StageIdle
  /\ ResolveIdle
  /\ TlsIdle
  /\ ProxyIdle
  /\ StoreIdle
  /\ PairIdle
  /\ basePath \in Roots
  /\ paths \in UNION {[1..n -> InputPaths] : n \in 1..MaxPaths}
  /\ pathIdx = 1
  /\ extracted = EmptyStr
  /\ allPaths = {}
  /\ pathPc = "next"

\* paths.forEach: a path that is skipped.
SkipPath ==
  /\ pathPc = "next"
  /\ pathIdx <= Len(paths)
  /\ Skipped(basePath, paths[pathIdx])
  /\ pathIdx' = pathIdx + 1
  /\ UNCHANGED <<basePath, paths, extracted, allPaths, pathPc>>
  /\ UNCHANGED <<callVars, loadVars, stageVars, resolveVars, tlsVars,
                 proxyVars, storeVars, pairVars>>

\* paths.forEach: let extracted = str, for a path that is not skipped.
EnterPath ==
  /\ pathPc = "next"
  /\ pathIdx <= Len(paths)
  /\ ~Skipped(basePath, paths[pathIdx])
  /\ extracted' = paths[pathIdx]
  /\ pathPc' = "loop"
  /\ UNCHANGED <<basePath, paths, pathIdx, allPaths>>
  /\ UNCHANGED <<callVars, loadVars, stageVars, resolveVars, tlsVars,
                 proxyVars, storeVars, pairVars>>

\* One iteration of while (extracted !== basePath).
LoopStep ==
  /\ pathPc = "loop"
  /\ extracted # basePath
  /\ extracted' = dirname(extracted)
  /\ allPaths' = allPaths \cup {dirname(extracted)}
  /\ UNCHANGED <<basePath, paths, pathIdx, pathPc>>
  /\ UNCHANGED <<callVars, loadVars, stageVars, resolveVars, tlsVars,
                 proxyVars, storeVars, pairVars>>

\* The loop ends: extracted === basePath.
LoopExit ==
  /\ pathPc = "loop"
  /\ extracted = basePath
  /\ pathIdx' = pathIdx + 1
  /\ pathPc' = "next"
  /\ UNCHANGED <<basePath, paths, extracted, allPaths>>
  /\ UNCHANGED <<callVars, loadVars, stageVars, resolveVars, tlsVars,
                 proxyVars, storeVars, pairVars>>

\* return Array.from(allPaths)
ReturnPaths ==
  /\ pathPc = "next"
  /\ pathIdx = Len(paths) + 1
  /\ pathPc' = "returned"
  /\ UNCHANGED <<basePath, paths, pathIdx, extracted, allPaths>>
  /\ UNCHANGED <<callVars, loadVars, stageVars, resolveVars, tlsVars,
                 proxyVars, storeVars, pairVars>>

NextPaths == SkipPath \/ EnterPath \/ LoopStep \/ LoopExit \/ ReturnPaths
SpecPaths == InitPaths /\ [][NextPaths]_vars

\* The function is synchronous: once called it keeps running.
SpecPathsFair == SpecPaths /\ WF_vars(NextPaths)

\* C33: the computation yields exactly the ancestor directories of every
\* input path lying under the root, from the path's own directory up to the
\* root, and nothing for a path that is not under the root: nothing else is
\* ever put into the set, and the set is complete on return.
ResolvedSegs(root, p) ==
  IF p.abs THEN Normalize(<<>>, p.segs)
  ELSE Normalize(<<>>, root.segs \o p.segs)
WrittenSegs(root, p) == IF p.abs THEN p.segs ELSE root.segs \o p.segs
UnderRoot(root, p) ==
  LET rs == Normalize(<<>>, root.segs)
      ps == ResolvedSegs(root, p)
  IN  Len(rs) < Len(ps) /\ SubSeq(ps, 1, Len(rs)) = rs
AncestorsUnder(root, p) ==
  IF UnderRoot(root, p)
    THEN {Str(TRUE, SubSeq(WrittenSegs(root, p), 1, k), FALSE) :
            k \in Len(root.segs)..(Len(WrittenSegs(root, p)) - 1)}
    ELSE {}
ExpectedDirs(n) == UNION {AncestorsUnder(basePath, paths[k]) : k \in 1..n}
C33_ExactAncestors ==
  /\ allPaths \subseteq ExpectedDirs(Len(paths))
  /\ pathPc = "returned" => allPaths = ExpectedDirs(Len(paths))

\* C33 for the calls that return: the returned set is the expected one.
C33_ExactOnReturn ==
  pathPc = "returned" => allPaths = ExpectedDirs(Len(paths))

\* C34: the computation terminates for every root and every input path.
C34_Terminates == <>(pathPc = "returned")

----------------------------------------------------------------------------
(***************************************************************************)
(* SpecPair: a MemoryCertStore (src/src/service/CertStore/MemoryStore.ts)  *)
(* and a DatabaseCertStore (src/unnamed/part_011) receive the same         *)
(* sequence of CertStore calls.  A caller names a certificate by the       *)
(* insertCertificateIfNeeded call that returned its id (a handle), each    *)
(* store being given the id it returned itself; handle 0 is an id that no  *)
(* store issued.                                                           *)
(***************************************************************************)

MaxPairOps == 3

\* undefined, as a result.
Undefined == [undefined |-> TRUE]

\* The CertFile a caller passes: uploaded files lie flat in the certificate
\* directory, so the relative path is the file name.
CertFile(type, filePath, content) ==
  [type |-> type, fileName |-> filePath, filePath |-> filePath,
   content |-> content]

\* toDBCertFile of either store: the file row, with the content encoded
\* when it is truthy and left out otherwise.
CertificateFileRow(cert) ==
  [present |-> TRUE, fileName |-> cert.fileName, filePath |-> cert.filePath,
   type |-> cert.type,
   content |-> IF cert.content # <<>> THEN encode(cert.content) ELSE <<>>]

(*------------------------- MemoryCertStore -------------------------------*)

\* find(cert => cert.rootCert.filePath === rootCert.filePath) over the
\* entity's certificates, in list order (0: none).
MemoryExistingCertificate(m, entityName, rootCert) ==
  LET found ==
        SelectSeq(m.certificatesByEntity[entityName],
                  LAMBDA id : m.certificatesById[id].files["rootCert"].filePath
                                = rootCert.filePath)
  IN  IF found = <<>> THEN 0 ELSE found[1]

MemoryUpdateCertificate(m, id, cert) ==
  IF m.certificatesById[id].present
    THEN [m EXCEPT !.certificatesById[id].files[cert.type] =
                     CertificateFileRow(cert)]
    ELSE m

MemoryInsertCertificate(m, entityName, pRootCert) ==
  [certificatesById |->
     [m.certificatesById EXCEPT ![m.uuid] =
        [present |-> TRUE, entityName |-> entityName,
         files |-> [t \in CertTypeSet |->
                      IF t = "rootCert" THEN CertificateFileRow(pRootCert)
                                        ELSE NoFileRow]]],
   certificatesByEntity |->
     [m.certificatesByEntity EXCEPT ![entityName] = Append(@, m.uuid)],
   uuid |-> m.uuid + 1]

\* The store after insertCertificateIfNeeded, and the id it returns.
MemoryInsertCertificateIfNeeded(m, entityName, rootCert) ==
  LET existing == MemoryExistingCertificate(m, entityName, rootCert)
  IN  IF existing # 0
        THEN [store |-> MemoryUpdateCertificate(m, existing, rootCert),
              id |-> existing]
        ELSE [store |-> MemoryInsertCertificate(m, entityName, rootCert),
              id |-> m.uuid]

MemoryDeleteCertificateById(m, id) ==
  [m EXCEPT !.certificatesById[id] = NoCertificate]
MemoryDeleteCertificate(m, id) ==
  [m EXCEPT !.certificatesById[id] = NoCertificate,
            !.certificatesByEntity =
               [e \in Entities |-> SelectSeq(@[e], LAMBDA c : c # id)]]

MemoryToDTOCertFileWithContent(certFile) ==
  [fileName |-> certFile.fileName, filePath |-> certFile.filePath,
   type |-> certFile.type, content |-> certFile.content]
MemoryToDTOCertFile(certFile) ==
  [fileName |-> certFile.fileName, filePath |-> certFile.filePath,
   type |-> certFile.type]

MemoryToDTO(m, id) ==
  LET certificate == m.certificatesById[id]
  IN  [id |-> id,
       files |-> [t \in CertTypeSet |->
                    IF t = "rootCert" \/ certificate.files[t].present
                      THEN MemoryToDTOCertFile(certificate.files[t])
                      ELSE Undefined]]

MemoryListCertificates(m, entityName) ==
  [k \in 1..Len(m.certificatesByEntity[entityName]) |->
     MemoryToDTO(m, m.certificatesByEntity[entityName][k])]

MemoryGetCertificate(m, id) ==
  IF m.certificatesById[id].present THEN MemoryToDTO(m, id) ELSE Undefined

MemoryGetCertFile(m, id, certType) ==
  LET certificate == m.certificatesById[id]
      certFile == certificate.files[certType]
  IN  IF certificate.present /\ certFile.present
        THEN [type |-> certFile.type, fileName |-> certFile.fileName,
              filePath |-> certFile.filePath,
              content |-> IF certFile.content # <<>>
                            THEN decode(certFile.content) ELSE <<>>]
        ELSE Undefined

(*------------------------ DatabaseCertStore ------------------------------*)

DatabaseCertificateIds(d) ==
  {d.entity_certificates[k].id : k \in 1..Len(d.entity_certificates)}

\* The rows of the join of the entity's certificates with their files
\* whose file_path is the root certificate's: first() takes one of them,
\* the query having no order (0: no row).
DatabaseExistingCertificates(d, entityName, rootCert) ==
  LET matching ==
        {d.entity_certificates[k].id :
           k \in {j \in 1..Len(d.entity_certificates) :
                    /\ d.entity_certificates[j].entity_name = entityName
                    /\ \E t \in CertTypeSet :
                         LET row == d.certificate_files[
                                      <<d.entity_certificates[j].id, t>>]
                         IN  row.present /\ row.filePath = rootCert.filePath}}
  IN  IF matching = {} THEN {0} ELSE matching

\* insert ... onConflict(certificate_id, type).merge(...)
DatabaseUpdateCertificate(d, id, cert) ==
  [d EXCEPT !.certificate_files[<<id, cert.type>>] = CertificateFileRow(cert)]

DatabaseInsertCertificate(d, entityName, rootCert) ==
  [entity_certificates |->
     Append(d.entity_certificates,
            [id |-> d.uuid, entity_name |-> entityName]),
   certificate_files |->
     [d.certificate_files EXCEPT ![<<d.uuid, rootCert.type>>] =
        CertificateFileRow(rootCert)],
   uuid |-> d.uuid + 1]

\* The store after insertCertificateIfNeeded when first() gave `existing',
\* and the id it returns.
DatabaseInsertCertificateIfNeeded(d, entityName, rootCert, existing) ==
  IF existing # 0
    THEN [store |-> DatabaseUpdateCertificate(d, existing, rootCert),
          id |-> existing]
    ELSE [store |-> DatabaseInsertCertificate(d, entityName, rootCert),
          id |-> d.uuid]

DatabaseDeleteCertificate(d, id) ==
  IF id \in DatabaseCertificateIds(d)
    THEN [d EXCEPT !.entity_certificates =
                      SelectSeq(@, LAMBDA c : c.id # id),
                   !.certificate_files =
                      [k \in AnyIds \X CertTypeSet |->
                         IF k[1] = id THEN NoFileRow ELSE @[k]]]
    ELSE d

\* select('file_name', 'file_path', 'type') of a joined row.
DatabaseSelectedFile(row) ==
  [fileName |-> row.fileName, filePath |-> row.filePath, type |-> row.type]

\* dictById[id]: the selected files of a certificate by type.
DatabaseDict(d, id) ==
  [t \in CertTypeSet |->
     IF d.certificate_files[<<id, t>>].present
       THEN DatabaseSelectedFile(d.certificate_files[<<id, t>>])
       ELSE Undefined]

\* The certificate has a row in the join.
DatabaseJoined(d, id) ==
  /\ id \in DatabaseCertificateIds(d)
  /\ \E t \in CertTypeSet : d.certificate_files[<<id, t>>].present

DatabaseGetCertificate(d, id) ==
  IF DatabaseJoined(d, id) THEN [files |-> DatabaseDict(d, id)] ELSE Undefined

DatabaseListCertificates(d, entityName) ==
  LET rows == SelectSeq(d.entity_certificates,
                        LAMBDA c : /\ c.entity_name = entityName
                                   /\ DatabaseJoined(d, c.id))
  IN  [k \in 1..Len(rows) |->
         [id |-> rows[k].id, files |-> DatabaseDict(d, rows[k].id)]]

DatabaseGetCertFile(d, id, certType) ==
  LET certificate == d.certificate_files[<<id, certType>>]
  IN  IF certificate.present
        THEN [type |-> certificate.type, fileName |-> certificate.fileName,
              filePath |-> certificate.filePath,
              content |-> IF certificate.content # <<>>
                            THEN decode(certificate.content) ELSE <<>>]
        ELSE Undefined

(*----------------------------- the calls ---------------------------------*)

\* The id a handle stands for in a store.
IdOf(kind, h) == IF h = 0 THEN 0 ELSE issued[kind][h]
Handles == 0..MaxPairOps

\* Both stores have been created; nothing is in them.
InitPair ==
  /\ CallIdle
  /\ LoadIdle
  /\ StageIdle
  /\ ResolveIdle
  /\ TlsIdle
  /\ ProxyIdle
  /\ StoreIdle
  /\ PathIdle
  /\ mem = EmptyMemory
  /\ db = EmptyDatabase
  /\ issued = [memory |-> <<>>, database |-> <<>>]
  /\ deleted = [memory |-> {}, database |-> {}]
  /\ pairOps = 0

\* insertCertificateIfNeeded(entityName, rootCert) on both stores.
PairInsertCertificateIfNeeded(entityName, filePath, content) ==
  /\ pairOps < MaxPairOps
  /\ LET rootCert == CertFile("rootCert", filePath, content)
         m == MemoryInsertCertificateIfNeeded(mem, entityName, rootCert)
     IN  /\ m.id <= MaxCerts
         /\ \E existing \in
                DatabaseExistingCertificates(db, entityName, rootCert) :
              LET d == DatabaseInsertCertificateIfNeeded(
                         db, entityName, rootCert, existing)
              IN  /\ d.id <= MaxCerts
                  /\ db' = d.store
                  /\ issued' = [memory |-> Append(issued.memory, m.id),
                                database |-> Append(issued.database, d.id)]
         /\ mem' = m.store
  /\ pairOps' = pairOps + 1
  /\ UNCHANGED deleted
  /\ UNCHANGED <<callVars, loadVars, stageVars, resolveVars, tlsVars,
                 proxyVars, storeVars, pathVars>>

\* updateCertificate(id, cert) on both stores.
PairUpdateCertificate(h, type, filePath, content) ==
  /\ pairOps < MaxPairOps
  /\ h <= Len(issued.memory)
  /\ mem' = MemoryUpdateCertificate(mem, IdOf("memory", h),
                                    CertFile(type, filePath, content))
  /\ db' = DatabaseUpdateCertificate(db, IdOf("database", h),
                                     CertFile(type, filePath, content))
  /\ pairOps' = pairOps + 1
  /\ UNCHANGED <<issued, deleted>>
  /\ UNCHANGED <<callVars, loadVars, stageVars, resolveVars, tlsVars,
                 proxyVars, storeVars, pathVars>>

\* deleteCertificate(id) on both stores.
PairDeleteCertificate(h) ==
  /\ pairOps < MaxPairOps
  /\ h <= Len(issued.memory)
  /\ mem' = MemoryDeleteCertificate(mem, IdOf("memory", h))
  /\ db' = DatabaseDeleteCertificate(db, IdOf("database", h))
  /\ deleted' = [memory |-> deleted.memory \cup {IdOf("memory", h)},
                 database |-> deleted.database \cup {IdOf("database", h)}]
  /\ pairOps' = pairOps + 1
  /\ UNCHANGED issued
  /\ UNCHANGED <<callVars, loadVars, stageVars, resolveVars, tlsVars,
                 proxyVars, storeVars, pathVars>>

NextPair ==
  \/ \E e \in Entities, p \in FilePaths, c \in Plaintexts :
       PairInsertCertificateIfNeeded(e, p, c)
  \/ \E h \in Handles, t \in CertTypeSet, p \in FilePaths, c \in Plaintexts :
       PairUpdateCertificate(h, t, p, c)
  \/ \E h \in Handles : PairDeleteCertificate(h)

SpecPair == InitPair /\ [][NextPair]_vars

\* C36: listCertificates and getCertificate return no file content: every
\* returned certificate file carries fileName, filePath and type only, and
\* the results are those of the store holding no content at all, so that
\* two stores differing only in content answer alike.
EraseContent(row) == [row EXCEPT !.content = <<>>]
EraseMemory(m) ==
  [m EXCEPT !.certificatesById =
     [id \in AnyIds |->
        [@[id] EXCEPT !.files = [t \in CertTypeSet |-> EraseContent(@[t])]]]]
EraseDatabase(d) ==
  [d EXCEPT !.certificate_files =
     [k \in AnyIds \X CertTypeSet |-> EraseContent(@[k])]]
DTOFields == {"fileName", "filePath", "type"}
OnlyDTOFields(files) ==
  \A t \in CertTypeSet :
    files[t] # Undefined => DOMAIN files[t] = DTOFields
ReturnedCertificates ==
  {MemoryGetCertificate(mem, id) : id \in AnyIds}
    \cup {DatabaseGetCertificate(db, id) : id \in AnyIds}
    \cup UNION {{MemoryListCertificates(mem, e)[k] :
                   k \in 1..Len(MemoryListCertificates(mem, e))} :
                e \in Entities}
    \cup UNION {{DatabaseListCertificates(db, e)[k] :
                   k \in 1..Len(DatabaseListCertificates(db, e))} :
                e \in Entities}
C36_NoContentReturned ==
  /\ \A c \in ReturnedCertificates : c # Undefined => OnlyDTOFields(c.files)
  /\ \A e \in Entities :
       /\ MemoryListCertificates(mem, e)
            = MemoryListCertificates(EraseMemory(mem), e)
       /\ DatabaseListCertificates(db, e)
            = DatabaseListCertificates(EraseDatabase(db), e)
  /\ \A id \in AnyIds :
       /\ MemoryGetCertificate(mem, id)
            = MemoryGetCertificate(EraseMemory(mem), id)
       /\ DatabaseGetCertificate(db, id)
            = DatabaseGetCertificate(EraseDatabase(db), id)

\* Both stores list a certificate whose files hold content.
C36_Witness ==
  \E e \in Entities :
    /\ Len(MemoryListCertificates(mem, e)) > 0
    /\ Len(DatabaseListCertificates(db, e)) > 0
    /\ mem # EraseMemory(mem)
    /\ db # EraseDatabase(db)
    /\ \E t \in {"privateKey", "certChain"} :
         MemoryListCertificates(mem, e)[1].files[t] # Undefined

\* C37: in the in-memory store every id listed under an entity is the id of
\* an existing certificate of that entity that has a root certificate, and
\* an id that deleteCertificate was given is listed under no entity.
Listed(m, e) ==
  {m.certificatesByEntity[e][k] : k \in 1..Len(m.certificatesByEntity[e])}
C37_EntityListsConsistent ==
  /\ \A e \in Entities : \A id \in Listed(mem, e) :
       /\ mem.certificatesById[id].present
       /\ mem.certificatesById[id].entityName = e
       /\ mem.certificatesById[id].files["rootCert"].present
  /\ \A id \in deleted.memory : \A e \in Entities : id \notin Listed(mem, e)

\* A certificate the store issued has been deleted, and another one,
\* inserted since, is listed.
C37_Witness ==
  /\ \E h \in 1..Len(issued.memory) : issued.memory[h] \in deleted.memory
  /\ \E e \in Entities : \E id \in Listed(mem, e) :
       \A gone \in deleted.memory : gone < id

\* C38: the two stores are observationally equivalent: for every id a
\* caller can name and every entity, getCertificate, getCertFile and
\* listCertificates give the same results in both, up to the generated
\* ids (an id is read as the calls that returned it, a list as a set, and
\* of a certificate the files are compared).
HandlesOf(kind, id) ==
  {h \in 1..Len(issued[kind]) : issued[kind][h] = id}
FilesOf(certificate) ==
  IF certificate = Undefined THEN Undefined ELSE certificate.files
ListView(kind, list) ==
  {[handles |-> HandlesOf(kind, list[k].id), files |-> list[k].files] :
     k \in 1..Len(list)}
SameCertificate(h) ==
  FilesOf(MemoryGetCertificate(mem, IdOf("memory", h)))
    = FilesOf(DatabaseGetCertificate(db, IdOf("database", h)))
SameCertFile(h, t) ==
  MemoryGetCertFile(mem, IdOf("memory", h), t)
    = DatabaseGetCertFile(db, IdOf("database", h), t)
SameList(e) ==
  ListView("memory", MemoryListCertificates(mem, e))
    = ListView("database", DatabaseListCertificates(db, e))
C38_ObservationallyEquivalent ==
  /\ \A h \in 0..Len(issued.memory) :
       SameCertificate(h) /\ \A t \in CertTypeSet : SameCertFile(h, t)
  /\ \A e \in Entities : SameList(e)

\* C38 for the ids the stores issued: the calls naming an id that no store
\* issued are left out.
C38_EquivalentOnIssuedIds ==
  /\ \A h \in 1..Len(issued.memory) :
       SameCertificate(h) /\ \A t \in CertTypeSet : SameCertFile(h, t)
  /\ \A e \in Entities : SameList(e)

====
